---- MODULE Spec2Model ----
(***************************************************************************)
(* Model of the wiggle-puppy supervision loop (Runner::run) together with  *)
(* the parts of Agent::run, Config and Prd that decide what the loop does. *)
(*                                                                         *)
(* Strings are sequences of one-character strings, so that the substring   *)
(* tests of the code (String::contains) are computed, not assumed.         *)
(***************************************************************************)
EXTENDS Integers, Sequences, FiniteSets, TLC

(***************************************************************************)
(* Bounds of the model.                                                    *)
(***************************************************************************)
MaxIterations == 2
MaxRetries == 1
MaxThreshold == 2
ChannelSize == 2            \* capacity of the event channel in the model
MaxAttempts == 3            \* retries per iteration in the backoff runs
MaxInitialBackoff == 10     \* initial_backoff_secs goes up to 5 times this
MaxLines == 3               \* lines one child writes in the transcript runs
MaxStories == 3             \* stories of a checklist given to next_story

(***************************************************************************)
(* Program constants.                                                      *)
(***************************************************************************)
DEFAULT_DELAY_SECS == 2
DEFAULT_AGENT_TIMEOUT_SECS == 900
DEFAULT_INITIAL_BACKOFF_SECS == 5

VARIABLES
    config,                 \* Runner.config: the immutable Config of the run
    cancel_flag,            \* Runner.cancel_flag / RunnerHandle.cancel_flag
    pc,                     \* position of run() between two await points
    iteration,              \* run(): let mut iteration
    consecutive_failures,   \* run(): let mut consecutive_failures
    retry_attempt,          \* run(): let mut retry_attempt
    prompt,                 \* run(): let prompt (resolved this iteration)
    child,                  \* the child process of the Agent::run in flight
    output,                 \* run(): let output (AgentOutput)
    phrase_detected,        \* run(): let phrase_detected
    prd_complete_after,     \* run(): let prd_complete_after
    events,                 \* history: the events sent on Runner.events
    calls,                  \* history: the Agent::run calls of this iteration
    sleeps,                 \* history: the sleeps of this iteration
    seen,                   \* history: summary of the whole run
    outcome,                \* the value run() returned, or NoOutcome
    alive,                  \* child processes spawned and not known to have ended
    queued,                 \* events in the channel, sent and not yet received
    unsent,                 \* events of the current step whose send has not returned
    receiver,               \* what the holder of the EventReceiver does
    caller,                 \* the program around the Runner: where it is
    pipes,                  \* the child's stdout and stderr pipes
    reader,                 \* Agent::run: the locals of its drain loop
    prompt_file,            \* what the file at Config.prompt_path holds now
    prd_loaded,             \* print_prd_summary: what Prd::load gave it
    summary                 \* print_prd_summary: what it printed

vars == <<config, cancel_flag, pc, iteration, consecutive_failures,
          retry_attempt, prompt, child, alive, output, phrase_detected,
          prd_complete_after, events, calls, sleeps, seen, outcome,
          queued, unsent, receiver, caller, pipes, reader, prompt_file,
          prd_loaded, summary>>

(***************************************************************************)
(* Strings.                                                                *)
(***************************************************************************)
\* str::contains: needle occurs in hay as a contiguous substring.
Contains(hay, needle) ==
    \E i \in 0..(Len(hay) - Len(needle)) :
        SubSeq(hay, i + 1, i + Len(needle)) = needle

\* [String]::join("\n")
RECURSIVE JoinLines(_)
JoinLines(lines) ==
    IF lines = <<>> THEN <<>>
    ELSE IF Len(lines) = 1 THEN lines[1]
    ELSE lines[1] \o <<"\n">> \o JoinLines(Tail(lines))

RECURSIVE SelectLines(_, _)
SelectLines(lines, stderr) ==
    IF lines = <<>> THEN <<>>
    ELSE IF lines[1].is_stderr = stderr
         THEN <<lines[1].text>> \o SelectLines(Tail(lines), stderr)
         ELSE SelectLines(Tail(lines), stderr)

\* TextsOf with the stdout lines listed before the stderr lines.
TextsOf_StdoutFirst(lines) ==
    SelectLines(lines, FALSE) \o SelectLines(lines, TRUE)

RECURSIVE TextsOf(_)
TextsOf(lines) ==
    IF lines = <<>> THEN <<>> ELSE <<lines[1].text>> \o TextsOf(Tail(lines))


(***************************************************************************)
(* Events (event.rs) and outcomes (runner.rs).                             *)
(***************************************************************************)
Started(max) == [type |-> "Started", max_iterations |-> max]
IterationStarted(i, max) ==
    [type |-> "IterationStarted", iteration |-> i, max_iterations |-> max]
AgentOutputEvent(text, stderr) ==
    [type |-> "AgentOutput", text |-> text, is_stderr |-> stderr]
AgentFinished(code) == [type |-> "AgentFinished", exit_code |-> code]
AgentErrorDetectedEvent(pattern) ==
    [type |-> "AgentErrorDetected", pattern |-> pattern]
AgentTimeoutEvent(secs) == [type |-> "AgentTimeout", timeout_secs |-> secs]
IterationFinished(i, detected) ==
    [type |-> "IterationFinished", iteration |-> i,
     completion_detected |-> detected]
PrdUpdated(completed, total) ==
    [type |-> "PrdUpdated", completed |-> completed, total |-> total]
Warning(message) == [type |-> "Warning", message |-> message]
\* RetryScheduled with the attempts counted from 0.
RetryScheduled_ZeroBased(backoff, attempt, max) ==
    [type |-> "RetryScheduled", backoff_secs |-> backoff,
     attempt |-> attempt - 1, max_retries |-> max]

RetryScheduled(backoff, attempt, max) ==
    [type |-> "RetryScheduled", backoff_secs |-> backoff,
     attempt |-> attempt, max_retries |-> max]
CompletedEvent(i, reason) ==
    [type |-> "Completed", iterations |-> i, reason |-> reason]
StoppedEvent(i, reason) ==
    [type |-> "Stopped", iterations |-> i, reason |-> reason]

\* CompletionReason
AllStoriesComplete == [tag |-> "AllStoriesComplete"]
CompletionPhraseDetected == [tag |-> "CompletionPhraseDetected"]
Both == [tag |-> "Both"]

\* StopReason
MaxIterationsReason == [tag |-> "MaxIterations"]
Cancelled == [tag |-> "Cancelled"]
FatalError(message) == [tag |-> "FatalError", message |-> message]
CircuitBreakerTriggered(n) ==
    [tag |-> "CircuitBreakerTriggered", consecutive_failures |-> n]

\* Outcome
NoOutcome == [variant |-> "None"]
OutcomeCompleted(i, reason) ==
    [variant |-> "Completed", iterations |-> i, reason |-> reason]
\* OutcomeStopped counting only the iterations that were finished.
OutcomeStopped_FinishedOnly(i, reason) ==
    [variant |-> "Stopped", iterations |-> IF i > 0 THEN i - 1 ELSE 0,
     reason |-> reason]

OutcomeStopped(i, reason) ==
    [variant |-> "Stopped", iterations |-> i, reason |-> reason]

(***************************************************************************)
(* Config (config.rs).                                                     *)
(***************************************************************************)
CompletionPhrase == <<"p", "q">>
ErrorPattern == <<"E">>

(***************************************************************************)
(* f64 arithmetic, as far as calculate_backoff uses it.  A natural number  *)
(* of any size is the sequence of its digits in base 2^15, lowest first    *)
(* and without leading zeros; a positive f64 is mant * 2^exp with mant     *)
(* such a number of at most 53 bits.  Every product is rounded to 53 bits, *)
(* ties to even.                                                           *)
(***************************************************************************)
LimbBits == 15
LimbBase == 2 ^ LimbBits
MANTISSA_DIGITS == 53

RECURSIVE BigNorm(_)
BigNorm(a) ==
    IF a # <<>> /\ a[Len(a)] = 0 THEN BigNorm(SubSeq(a, 1, Len(a) - 1)) ELSE a

RECURSIVE BigFromNat(_)
BigFromNat(n) ==
    IF n = 0 THEN <<>> ELSE <<n % LimbBase>> \o BigFromNat(n \div LimbBase)

RECURSIVE BigToNat(_)
BigToNat(a) ==
    IF a = <<>> THEN 0 ELSE Head(a) + LimbBase * BigToNat(Tail(a))

RECURSIVE BigAdd(_, _, _)
BigAdd(a, b, carry) ==
    IF a = <<>> /\ b = <<>>
    THEN IF carry = 0 THEN <<>> ELSE <<carry>>
    ELSE LET x == IF a = <<>> THEN 0 ELSE Head(a)
             y == IF b = <<>> THEN 0 ELSE Head(b)
             t == x + y + carry
         IN  <<t % LimbBase>> \o
             BigAdd(IF a = <<>> THEN a ELSE Tail(a),
                    IF b = <<>> THEN b ELSE Tail(b), t \div LimbBase)

\* a * n + carry for one digit n
RECURSIVE BigMulSmall(_, _, _)
BigMulSmall(a, n, carry) ==
    IF a = <<>>
    THEN IF carry = 0 THEN <<>> ELSE <<carry>>
    ELSE LET t == Head(a) * n + carry
         IN  <<t % LimbBase>> \o BigMulSmall(Tail(a), n, t \div LimbBase)

RECURSIVE BigMul(_, _)
BigMul(a, b) ==
    IF b = <<>> THEN <<>>
    ELSE LET rest == BigMul(a, Tail(b))
         IN  BigNorm(BigAdd(BigMulSmall(a, Head(b), 0),
                            IF rest = <<>> THEN rest ELSE <<0>> \o rest, 0))

RECURSIVE BitLenNat(_)
BitLenNat(n) == IF n = 0 THEN 0 ELSE 1 + BitLenNat(n \div 2)

BitLen(a) ==
    IF a = <<>> THEN 0 ELSE LimbBits * (Len(a) - 1) + BitLenNat(a[Len(a)])

\* bit i of a, bit 0 the lowest
BigBit(a, i) ==
    LET j == (i \div LimbBits) + 1
    IN  IF j > Len(a) THEN 0 ELSE (a[j] \div (2 ^ (i % LimbBits))) % 2

\* the s lowest bits of a are all 0
BigLowZero(a, s) ==
    \A i \in 0..(s - 1) : BigBit(a, i) = 0

\* a divided by 2^s, the remainder dropped
BigShiftRight(a, s) ==
    LET j == s \div LimbBits
        r == s % LimbBits
        b == SubSeq(a, j + 1, Len(a))
    IN  BigNorm([i \in 1..Len(b) |->
                  (b[i] \div (2 ^ r)) +
                  (IF i < Len(b) THEN (b[i + 1] % (2 ^ r)) * (2 ^ (LimbBits - r))
                   ELSE 0)])

\* mant * 2^exp rounded to the nearest f64, ties to even
F64Round(mant, exp) ==
    LET s == BitLen(mant) - MANTISSA_DIGITS
    IN  IF s <= 0 THEN [mant |-> mant, exp |-> exp]
        ELSE LET q == BigShiftRight(mant, s)
                 up == /\ BigBit(mant, s - 1) = 1
                       /\ (~BigLowZero(mant, s - 1) \/ BigBit(q, 0) = 1)
             IN  [mant |-> IF up THEN BigAdd(q, <<1>>, 0) ELSE q,
                  exp |-> exp + s]

\* x * y
F64Mul(x, y) == F64Round(BigMul(x.mant, y.mant), x.exp + y.exp)

\* n as f64, for n below 2^53
F64FromU64(n) == [mant |-> BigFromNat(n), exp |-> 0]

\* x as u64: the fraction is dropped
F64ToU64(x) ==
    IF x.exp >= 0 THEN BigToNat(x.mant) * (2 ^ x.exp)
    ELSE BigToNat(BigShiftRight(x.mant, 0 - x.exp))

\* f64::powi: the product of n factors x by repeated squaring
RECURSIVE powi_loop(_, _, _)
powi_loop(r, a, n) ==
    LET r2 == IF n % 2 = 1 THEN F64Mul(r, a) ELSE r
    IN  IF n \div 2 = 0 THEN r2 ELSE powi_loop(r2, F64Mul(a, a), n \div 2)

powi(x, n) == powi_loop(F64FromU64(1), x, n)

\* The f64 values of the multipliers 1.0, 1.25, 1.5, 2.0 and 1.4; the last
\* is 0x16666666666666 * 2^-52, the f64 nearest to 7/5.
F64_1_0 == [mant |-> <<1>>, exp |-> 0]
F64_1_25 == [mant |-> <<5>>, exp |-> 0 - 2]
F64_1_5 == [mant |-> <<3>>, exp |-> 0 - 1]
F64_2_0 == [mant |-> <<1>>, exp |-> 1]
F64_1_4 == [mant |-> <<26214, 19660, 6553, 179>>, exp |-> 0 - 52]

BackoffSettings == { [initial |-> 10, multiplier |-> F64_1_5] }

\* The settings of the runs that are about the backoff.
BackoffMultipliers == {F64_1_0, F64_1_25, F64_1_5, F64_2_0, F64_1_4}

BackoffRange ==
    { [initial |-> DEFAULT_INITIAL_BACKOFF_SECS * j, multiplier |-> m] :
        j \in 1..MaxInitialBackoff, m \in BackoffMultipliers }

Configs ==
    { c \in [ max_iterations : {0, 1, MaxIterations},
              max_retries : {0, MaxRetries},
              circuit_breaker_threshold : {0, 1, MaxThreshold},
              delay : {0, DEFAULT_DELAY_SECS},
              completion_phrase : {CompletionPhrase, <<>>},
              prd_path : {"None", "Some"},
              prompt_source : {"none", "text", "file"},
              auto_completion_instruction : {TRUE},
              agent_timeout_secs : {DEFAULT_AGENT_TIMEOUT_SECS},
              error_patterns : {<<ErrorPattern>>},
              backoff : BackoffSettings ] : TRUE }

\* What the prompt file holds when the run starts, and what it can be
\* rewritten to.
PromptFile == <<"f">>
PromptFiles == {<<"f">>, <<"g">>}

CompletionInstruction == <<"!">> \o CompletionPhrase

\* get_prompt with the prompt file read once, before the run.
get_prompt_ReadOnce(c, file_ok) ==
    LET wrap(base) ==
            IF c.auto_completion_instruction
            THEN [ok |-> TRUE, text |-> base \o CompletionInstruction]
            ELSE [ok |-> TRUE, text |-> base]
    IN  IF c.prompt_source = "file"
        THEN IF file_ok THEN wrap(PromptFile)
             ELSE [ok |-> FALSE, error |-> "PromptReadError"]
        ELSE IF c.prompt_source = "text" THEN wrap(<<"t">>)
        ELSE [ok |-> FALSE, error |-> "NoPrompt"]

\* Config::get_prompt. file_ok: the prompt file can be read at this moment.
get_prompt(c, file_ok) ==
    LET wrap(base) ==
            IF c.auto_completion_instruction
            THEN [ok |-> TRUE, text |-> base \o CompletionInstruction]
            ELSE [ok |-> TRUE, text |-> base]
    IN  IF c.prompt_source = "file"
        THEN IF file_ok THEN wrap(prompt_file)
             ELSE [ok |-> FALSE, error |-> "PromptReadError"]
        ELSE IF c.prompt_source = "text" THEN wrap(<<"t">>)
        ELSE [ok |-> FALSE, error |-> "NoPrompt"]

\* calculate_backoff with the product rounded to the nearest integer.
calculate_backoff_Rounds(attempt, c) ==
    LET x == F64Mul(F64Mul(F64FromU64(c.backoff.initial),
                           powi(c.backoff.multiplier, attempt - 1)),
                    F64FromU64(2))
    IN  (F64ToU64(x) + 1) \div 2

\* calculate_backoff: initial as f64 * multiplier.powi(attempt - 1), as u64.
calculate_backoff(attempt, c) ==
    F64ToU64(F64Mul(F64FromU64(c.backoff.initial),
                    powi(c.backoff.multiplier, attempt - 1)))

\* The values of calculate_backoff for the settings and the attempts of the
\* model, computed once.
backoff_secs ==
    [b \in BackoffSettings \cup BackoffRange |->
        [attempt \in 1..(MaxRetries + MaxAttempts) |->
            calculate_backoff(attempt, [backoff |-> b])]]

(***************************************************************************)
(* Prd (prd.rs): what Prd::load can return at one moment.                  *)
(***************************************************************************)
PrdDocs ==
    { <<>>,
      <<[passes |-> TRUE]>>,
      <<[passes |-> TRUE], [passes |-> FALSE]>> }

PrdLoadResults ==
    {[ok |-> FALSE, error |-> "PrdReadError"]}
        \cup {[ok |-> TRUE, stories |-> d] : d \in PrdDocs}

\* Prd::is_complete asking for at least one story.
is_complete_NonEmpty(stories) ==
    stories # <<>> /\ \A i \in 1..Len(stories) : stories[i].passes

\* Prd::is_complete
is_complete(stories) == \A i \in 1..Len(stories) : stories[i].passes

\* prd_loaded.stories.iter().filter(|s| s.passes).count()
CompletedCount(stories) ==
    Cardinality({i \in 1..Len(stories) : stories[i].passes})

\* Story { id, priority, passes, depends_on }, as far as next_story and
\* status read it.  Ids need not be unique, and a dependency id need not be
\* the id of any story.
StoryIds == {"1", "2"}

Priorities == {1, 2}

DependsOn == {<<>>, <<"1">>, <<"1", "2">>}

Stories ==
    [id : StoryIds, priority : Priorities, passes : BOOLEAN,
     depends_on : DependsOn]

Checklists == UNION {[1..n -> Stories] : n \in 0..MaxStories}

\* next_story: let completed: HashSet<&str>
CompletedIds(stories) ==
    {stories[i].id : i \in {j \in 1..Len(stories) : stories[j].passes}}

\* Iterator::min_by_key(|s| s.priority) over the stories at the positions
\* `rest`: the first of the elements with the least key.  <<>> is None and
\* <<i>> is Some(&stories[i]).
RECURSIVE min_by_key(_, _, _)
min_by_key(stories, rest, best) ==
    IF rest = <<>> THEN best
    ELSE LET y == Head(rest)
             kept == IF best = <<>> THEN <<y>>
                     ELSE IF stories[best[1]].priority > stories[y].priority
                     THEN <<y>>
                     ELSE best
         IN  min_by_key(stories, Tail(rest), kept)

\* Prd::next_story without the filter on the dependencies.
next_story_IgnoresDependencies(stories) ==
    LET positions == [i \in 1..Len(stories) |-> i]
        candidates == SelectSeq(positions, LAMBDA i : ~stories[i].passes)
    IN  min_by_key(stories, candidates, <<>>)

\* Prd::next_story
next_story(stories) ==
    LET completed == CompletedIds(stories)
        positions == [i \in 1..Len(stories) |-> i]
        candidates ==
            SelectSeq(positions,
                LAMBDA i :
                    /\ ~stories[i].passes
                    /\ \A k \in 1..Len(stories[i].depends_on) :
                         stories[i].depends_on[k] \in completed)
    IN  min_by_key(stories, candidates, <<>>)

\* Story::status
status(story, completed_ids) ==
    IF story.passes THEN "Complete"
    ELSE IF \A k \in 1..Len(story.depends_on) :
                story.depends_on[k] \in completed_ids
    THEN "Pending"
    ELSE "Blocked"

\* print_prd_summary has loaded nothing and printed nothing.
NoPrd == [ok |-> FALSE, error |-> "none"]

NoSummary == [kind |-> "none"]

(***************************************************************************)
(* Agent (agent.rs).  A child is what the spawned process does: the lines  *)
(* it writes, in the order Agent::run reads them, and how it ends.         *)
(*   exit        both streams reach end-of-input and the process exits     *)
(*   hang_closed both streams reach end-of-input, the process never exits  *)
(*   hang_open   the process never exits and keeps its streams open        *)
(*   wait_failed both streams reach end-of-input, child.wait() fails       *)
(***************************************************************************)
Line(text, stderr) == [text |-> text, is_stderr |-> stderr]

NoChild == [lines |-> <<>>, ending |-> "none", exit_code |-> <<>>]

Children ==
    { [lines |-> <<Line(<<"p">>, FALSE), Line(<<"q">>, FALSE)>>,
       ending |-> "exit", exit_code |-> <<0>>],
      [lines |-> <<Line(<<"p", "q">>, FALSE)>>,
       ending |-> "exit", exit_code |-> <<0>>],
      [lines |-> <<Line(<<"x">>, TRUE), Line(<<"x", "p", "q", "x">>, FALSE)>>,
       ending |-> "exit", exit_code |-> <<1>>],
      [lines |-> <<Line(<<"p", "q">>, FALSE), Line(<<"x", "E">>, TRUE)>>,
       ending |-> "exit", exit_code |-> <<0>>],
      [lines |-> <<>>, ending |-> "hang_closed", exit_code |-> <<>>],
      [lines |-> <<Line(<<"p", "q">>, FALSE), Line(<<"x", "E">>, TRUE)>>,
       ending |-> "hang_closed", exit_code |-> <<>>],
      [lines |-> <<>>, ending |-> "hang_open", exit_code |-> <<>>],
      [lines |-> <<Line(<<"x">>, FALSE)>>,
       ending |-> "wait_failed", exit_code |-> <<>>] }

\* The for-loops over error_patterns inside the drain loop: the pattern left
\* in detected_error after all lines were read (<<>> stands for None).
RECURSIVE DetectedError(_, _, _)
DetectedError(lines, patterns, found) ==
    IF lines = <<>> THEN found
    ELSE LET hits == {k \in 1..Len(patterns) :
                          Contains(lines[1].text, patterns[k])}
             last == CHOOSE k \in hits : \A j \in hits : j <= k
         IN  DetectedError(Tail(lines), patterns,
                           IF hits = {} THEN found ELSE <<patterns[last]>>)

\* AgentOutput { stdout, stderr, combined, exit_code }
AgentOutputOf(c) ==
    [stdout |-> JoinLines(SelectLines(c.lines, FALSE)),
     stderr |-> JoinLines(SelectLines(c.lines, TRUE)),
     combined |-> JoinLines(TextsOf(c.lines)),
     exit_code |-> c.exit_code]

\* AgentOutput::empty with a transcript that holds the completion phrase.
EmptyOutput_HoldsPhrase ==
    [stdout |-> <<>>, stderr |-> <<>>, combined |-> CompletionPhrase,
     exit_code |-> <<>>]

\* AgentOutput::empty
EmptyOutput ==
    [stdout |-> <<>>, stderr |-> <<>>, combined |-> <<>>, exit_code |-> <<>>]

\* AgentOutput::contains as a test for equality with the whole output.
OutputContains_WholeOutput(o, phrase) == o.combined = phrase

\* AgentOutput::contains
OutputContains(o, phrase) == Contains(o.combined, phrase)

\* Agent::run with error patterns looked for in the lines of stdout only.
AgentRunResult_StdoutOnly(c, cfg) ==
    LET detected ==
            DetectedError(SelectSeq(c.lines, LAMBDA l : ~l.is_stderr),
                          cfg.error_patterns, <<>>)
    IN  IF detected # <<>>
        THEN [kind |-> "AgentErrorDetected", pattern |-> detected[1]]
        ELSE IF c.ending = "hang_closed"
        THEN [kind |-> "AgentTimeout", timeout_secs |-> cfg.agent_timeout_secs]
        ELSE IF c.ending = "wait_failed"
        THEN [kind |-> "AgentError", message |-> "wait failed"]
        ELSE [kind |-> "Ok", output |-> AgentOutputOf(c)]

\* AgentRunResult with an exit code other than 0 returned as a failure.
AgentRunResult_ExitCodeFails(c, cfg) ==
    LET detected == DetectedError(c.lines, cfg.error_patterns, <<>>)
    IN  IF detected # <<>>
        THEN [kind |-> "AgentErrorDetected", pattern |-> detected[1]]
        ELSE IF c.ending = "hang_closed"
        THEN [kind |-> "AgentTimeout", timeout_secs |-> cfg.agent_timeout_secs]
        ELSE IF c.ending = "wait_failed" \/ c.exit_code # <<0>>
        THEN [kind |-> "AgentError", message |-> "wait failed"]
        ELSE [kind |-> "Ok", output |-> AgentOutputOf(c)]

\* The value Agent::run returns for a child that lets it return.
AgentRunResult(c, cfg) ==
    LET detected == DetectedError(c.lines, cfg.error_patterns, <<>>)
    IN  IF detected # <<>>
        THEN [kind |-> "AgentErrorDetected", pattern |-> detected[1]]
        ELSE IF c.ending = "hang_closed"
        THEN [kind |-> "AgentTimeout", timeout_secs |-> cfg.agent_timeout_secs]
        ELSE IF c.ending = "wait_failed"
        THEN [kind |-> "AgentError", message |-> "wait failed"]
        ELSE [kind |-> "Ok", output |-> AgentOutputOf(c)]

\* The events Agent::run sends for that child, in order.
RECURSIVE OutputEvents(_)
OutputEvents(lines) ==
    IF lines = <<>> THEN <<>>
    ELSE <<AgentOutputEvent(lines[1].text, lines[1].is_stderr)>>
             \o OutputEvents(Tail(lines))

AgentRunEvents(c, cfg) ==
    LET r == AgentRunResult(c, cfg)
    IN  OutputEvents(c.lines) \o
        ( IF r.kind = "AgentErrorDetected"
          THEN <<AgentErrorDetectedEvent(r.pattern)>>
          ELSE IF r.kind = "AgentTimeout"
          THEN <<AgentTimeoutEvent(r.timeout_secs)>>
          ELSE IF r.kind = "Ok" THEN <<AgentFinished(c.exit_code)>>
          ELSE <<>> )

\* Whether Agent::run returns at all for this child: the drain loop ends only
\* when stdout reaches end-of-input.
AgentRunReturns(c) == c.ending # "hang_open"


(***************************************************************************)
(* History.  events holds, in the order sent, the lifecycle events of the  *)
(* whole run (Started, IterationStarted, Completed, Stopped) and every     *)
(* event sent since the latest IterationStarted; calls and sleeps hold the *)
(* Agent::run calls that returned and the sleeps of the current iteration. *)
(* What the earlier iterations did is summarised in seen.                  *)
(***************************************************************************)
LifecycleTypes == {"Started", "IterationStarted", "Completed", "Stopped"}

RECURSIVE Lifecycle(_)
Lifecycle(es) ==
    IF es = <<>> THEN <<>>
    ELSE IF es[1].type \in LifecycleTypes
         THEN <<es[1]>> \o Lifecycle(Tail(es))
         ELSE Lifecycle(Tail(es))

\* needle occurs in hay: hay = u \o needle \o v for some u and v.
Occurs(hay, needle) ==
    \E n \in 0..Len(hay) : \E m \in n..Len(hay) :
        /\ m - n = Len(needle)
        /\ \A j \in 1..Len(needle) : hay[n + j] = needle[j]

NothingSeen ==
    [invocations |-> 0,         \* Agent::run calls made
     kinds |-> {},              \* the kinds of result they returned
     prompts |-> {},            \* the prompts of the calls that returned
     failures_since_success |-> 0,  \* retryable failures since the last Ok
     phrase |-> FALSE,          \* a successful transcript held the phrase
     prompt_error |-> FALSE,    \* Config::get_prompt failed
     prd_complete |-> FALSE,    \* a Prd::load returned a complete checklist
     prd_error |-> FALSE]       \* a Prd::load failed

SeenLoad(r) ==
    [seen EXCEPT !.prd_complete = @ \/ (r.ok /\ is_complete(r.stories)),
                 !.prd_error = @ \/ ~r.ok]

hist == <<events, calls, sleeps, seen>>

(***************************************************************************)
(* Runner::new and the state before run() is polled.                       *)
(***************************************************************************)
\* The pipes and the drain loop of an Agent::run call that is taken whole.
NoPipes ==
    [out_buf |-> <<>>, err_buf |-> <<>>, out_open |-> FALSE,
     err_open |-> FALSE, out_written |-> <<>>, err_written |-> <<>>]

NoReader ==
    [phase |-> "none", stdout_lines |-> <<>>, stderr_lines |-> <<>>,
     combined_lines |-> <<>>, detected_error |-> <<>>, read |-> <<>>,
     stderr_eof_at |-> <<>>, killed |-> FALSE, result |-> [kind |-> "None"]]

\* A caller of whom nothing is said but what it does with the receiver.
Library ==
    [program |-> "library", at |-> "run", runner |-> "held",
     events_loop |-> "none", exit_code |-> "none"]

\* Runner::new with one of the given configurations; the receiver half of
\* the channel goes to the caller `program`, who does with it what
\* `consumer` says.
InitHolding(configs, consumer, program, loads) ==
    /\ config \in configs
    /\ cancel_flag = FALSE
    /\ pc = "start"
    /\ iteration = 0
    /\ consecutive_failures = 0
    /\ retry_attempt = 0
    /\ prompt = <<>>
    /\ child = NoChild
    /\ output = EmptyOutput
    /\ phrase_detected = FALSE
    /\ prd_complete_after = FALSE
    /\ events = <<>>
    /\ calls = <<>>
    /\ sleeps = <<>>
    /\ seen = NothingSeen
    /\ outcome = NoOutcome
    /\ alive = 0
    /\ queued = 0
    /\ unsent = 0
    /\ receiver = consumer
    /\ caller = program
    /\ pipes = NoPipes
    /\ reader = NoReader
    /\ prompt_file = PromptFile
    /\ prd_loaded \in loads
    /\ summary = NoSummary

\* Runner::new in a program that has printed no checklist summary.
InitCalled(configs, consumer, program) ==
    InitHolding(configs, consumer, program, {NoPrd})

InitWith(configs, consumer) == InitCalled(configs, consumer, Library)

Init == InitWith(Configs, "draining")

locals == <<retry_attempt, prompt, child, alive, output, phrase_detected,
            prd_complete_after>>

chan == <<queued, unsent, receiver>>

\* What no step of run() and no step of the channel changes.
drain_vars == <<pipes, reader>>

others == <<caller, pipes, reader, prompt_file, prd_loaded, summary>>

\* The number of events the step of run() being taken sends.
Sent ==
    IF pc = "start_iteration" THEN 1 ELSE Len(events') - Len(events)

\* events.send(..).await, for every event of one step of run(): the step is
\* taken after the sends of the step before it have returned.  A draining
\* receiver takes each event as it is sent, so that every send returns at
\* once; with any other receiver the sends return as ChannelSend lets them.
Emit ==
    /\ unsent = 0
    /\ unsent' = IF receiver = "draining" THEN 0 ELSE Sent
    /\ UNCHANGED <<queued, receiver, others>>

\* RunnerHandle::cancel
Cancel ==
    /\ cancel_flag = FALSE
    /\ cancel_flag' = TRUE
    /\ UNCHANGED <<config, pc, iteration, consecutive_failures, locals,
                   hist, outcome, chan, others>>

\* Runner::is_cancelled
is_cancelled == cancel_flag

\* run(): send Started, construct the agent, zero the two counters.
RunStart ==
    /\ pc = "start"
    /\ events' = Append(events, Started(config.max_iterations))
    /\ iteration' = 0
    /\ consecutive_failures' = 0
    /\ pc' = "loop_top"
    /\ UNCHANGED <<config, cancel_flag, locals, calls, sleeps, seen, outcome>>
    /\ Emit

\* LoopTop with the limit tested as iteration > max_iterations.
LoopTop_LimitOffByOne ==
    /\ pc = "loop_top"
    /\ IF is_cancelled
       THEN /\ events' = Append(events, StoppedEvent(iteration, Cancelled))
            /\ outcome' = OutcomeStopped(iteration, Cancelled)
            /\ pc' = "done"
       ELSE IF iteration > config.max_iterations
       THEN /\ events' = Append(events, StoppedEvent(iteration, MaxIterationsReason))
            /\ outcome' = OutcomeStopped(iteration, MaxIterationsReason)
            /\ pc' = "done"
       ELSE /\ pc' = "start_iteration"
            /\ UNCHANGED <<events, outcome>>
    /\ UNCHANGED <<config, cancel_flag, iteration, consecutive_failures,
                   locals, calls, sleeps, seen>>
    /\ Emit

\* LoopTop with the iteration limit tested before the cancellation flag.
LoopTop_LimitFirst ==
    /\ pc = "loop_top"
    /\ IF iteration >= config.max_iterations
       THEN /\ events' = Append(events, StoppedEvent(iteration, MaxIterationsReason))
            /\ outcome' = OutcomeStopped(iteration, MaxIterationsReason)
            /\ pc' = "done"
       ELSE IF is_cancelled
       THEN /\ events' = Append(events, StoppedEvent(iteration, Cancelled))
            /\ outcome' = OutcomeStopped(iteration, Cancelled)
            /\ pc' = "done"
       ELSE /\ pc' = "start_iteration"
            /\ UNCHANGED <<events, outcome>>
    /\ UNCHANGED <<config, cancel_flag, iteration, consecutive_failures,
                   locals, calls, sleeps, seen>>
    /\ Emit

\* run(): top of the loop: cancellation check, then iteration limit.
LoopTop ==
    /\ pc = "loop_top"
    /\ IF is_cancelled
       THEN /\ events' = Append(events, StoppedEvent(iteration, Cancelled))
            /\ outcome' = OutcomeStopped(iteration, Cancelled)
            /\ pc' = "done"
       ELSE IF iteration >= config.max_iterations
       THEN /\ events' = Append(events, StoppedEvent(iteration, MaxIterationsReason))
            /\ outcome' = OutcomeStopped(iteration, MaxIterationsReason)
            /\ pc' = "done"
       ELSE /\ pc' = "start_iteration"
            /\ UNCHANGED <<events, outcome>>
    /\ UNCHANGED <<config, cancel_flag, iteration, consecutive_failures,
                   locals, calls, sleeps, seen>>
    /\ Emit

\* StartIteration announcing the iteration before the counter is incremented.
StartIteration_StaleNumber ==
    /\ pc = "start_iteration"
    /\ iteration' = iteration + 1
    /\ events' = Append(Lifecycle(events),
                        IterationStarted(iteration, config.max_iterations))
    /\ calls' = <<>>
    /\ sleeps' = <<>>
    /\ pc' = "get_prompt"
    /\ UNCHANGED <<config, cancel_flag, consecutive_failures, locals, seen,
                   outcome>>
    /\ Emit

\* StartIteration with the failure counter reset for the new iteration.
StartIteration_ResetsFailures ==
    /\ pc = "start_iteration"
    /\ iteration' = iteration + 1
    /\ events' = Append(Lifecycle(events),
                        IterationStarted(iteration + 1, config.max_iterations))
    /\ calls' = <<>>
    /\ sleeps' = <<>>
    /\ consecutive_failures' = 0
    /\ pc' = "get_prompt"
    /\ UNCHANGED <<config, cancel_flag, locals, seen, outcome>>
    /\ Emit

\* run(): the counter is incremented and IterationStarted is sent.
StartIteration ==
    /\ pc = "start_iteration"
    /\ iteration' = iteration + 1
    /\ events' = Append(Lifecycle(events),
                        IterationStarted(iteration + 1, config.max_iterations))
    /\ calls' = <<>>
    /\ sleeps' = <<>>
    /\ pc' = "get_prompt"
    /\ UNCHANGED <<config, cancel_flag, consecutive_failures, locals, seen,
                   outcome>>
    /\ Emit

\* ResolvePrompt going on with an empty prompt when resolution fails.
ResolvePrompt_GoesOn ==
    /\ pc = "get_prompt"
    /\ \E file_ok \in BOOLEAN :
         LET r == get_prompt(config, file_ok)
         IN  /\ prompt' = IF r.ok THEN r.text ELSE <<>>
             /\ seen' = [seen EXCEPT !.prompt_error = @ \/ ~r.ok]
             /\ pc' = "prd_before"
             /\ UNCHANGED <<events, outcome>>
    /\ UNCHANGED <<config, cancel_flag, iteration, consecutive_failures,
                   retry_attempt, child, alive, output, phrase_detected,
                   prd_complete_after, calls, sleeps>>
    /\ Emit

\* ResolvePrompt returning the bare error where the event has the message.
ResolvePrompt_BareMessage ==
    /\ pc = "get_prompt"
    /\ \E file_ok \in BOOLEAN :
         LET r == get_prompt(config, file_ok)
         IN  IF r.ok
             THEN /\ prompt' = r.text
                  /\ pc' = "prd_before"
                  /\ UNCHANGED <<events, seen, outcome>>
             ELSE LET message == <<"failed to read prompt", r.error>>
                  IN  /\ events' = Append(events,
                             StoppedEvent(iteration, FatalError(message)))
                      /\ outcome' =
                             OutcomeStopped(iteration, FatalError(<<r.error>>))
                      /\ seen' = [seen EXCEPT !.prompt_error = TRUE]
                      /\ pc' = "done"
                      /\ UNCHANGED prompt
    /\ UNCHANGED <<config, cancel_flag, iteration, consecutive_failures,
                   retry_attempt, child, alive, output, phrase_detected,
                   prd_complete_after, calls, sleeps>>
    /\ Emit

\* run(): re-read the prompt; a failure stops the run.
ResolvePrompt ==
    /\ pc = "get_prompt"
    /\ \E file_ok \in BOOLEAN :
         LET r == get_prompt(config, file_ok)
         IN  IF r.ok
             THEN /\ prompt' = r.text
                  /\ pc' = "prd_before"
                  /\ UNCHANGED <<events, seen, outcome>>
             ELSE LET message == <<"failed to read prompt", r.error>>
                  IN  /\ events' = Append(events,
                             StoppedEvent(iteration, FatalError(message)))
                      /\ outcome' =
                             OutcomeStopped(iteration, FatalError(message))
                      /\ seen' = [seen EXCEPT !.prompt_error = TRUE]
                      /\ pc' = "done"
                      /\ UNCHANGED prompt
    /\ UNCHANGED <<config, cancel_flag, iteration, consecutive_failures,
                   retry_attempt, child, alive, output, phrase_detected,
                   prd_complete_after, calls, sleeps>>
    /\ Emit

\* The event sent for one Prd::load, and the flag the load yields.
PrdLoadEvent(r, warning) ==
    IF r.ok
    THEN PrdUpdated(CompletedCount(r.stories), Len(r.stories))
    ELSE Warning(<<warning, r.error>>)

\* PrdLoadComplete with a failed load taken as a complete checklist.
PrdLoadComplete_ErrorCompletes(r) ==
    IF r.ok THEN is_complete(r.stories) ELSE TRUE

PrdLoadComplete(r) == IF r.ok THEN is_complete(r.stories) ELSE FALSE

\* PrdBefore crediting the iteration that was about to start.
PrdBefore_CountsIteration ==
    /\ pc = "prd_before"
    /\ IF config.prd_path = "Some"
       THEN \E r \in PrdLoadResults :
              LET prd_complete_before == PrdLoadComplete(r)
                  sent == Append(events,
                                 PrdLoadEvent(r, "failed to read PRD"))
              IN  /\ seen' = SeenLoad(r)
                  /\ IF prd_complete_before
                     THEN /\ events' = Append(sent,
                                 CompletedEvent(iteration,
                                                AllStoriesComplete))
                          /\ outcome' = OutcomeCompleted(iteration,
                                                         AllStoriesComplete)
                          /\ pc' = "done"
                          /\ UNCHANGED retry_attempt
                     ELSE /\ events' = sent
                          /\ retry_attempt' = 0
                          /\ pc' = "attempt"
                          /\ UNCHANGED outcome
       ELSE /\ retry_attempt' = 0
            /\ pc' = "attempt"
            /\ UNCHANGED <<events, seen, outcome>>
    /\ UNCHANGED <<config, cancel_flag, iteration, consecutive_failures,
                   prompt, child, alive, output, phrase_detected,
                   prd_complete_after, calls, sleeps>>
    /\ Emit

\* run(): PRD state before running the agent; complete means done.
PrdBefore ==
    /\ pc = "prd_before"
    /\ IF config.prd_path = "Some"
       THEN \E r \in PrdLoadResults :
              LET prd_complete_before == PrdLoadComplete(r)
                  sent == Append(events,
                                 PrdLoadEvent(r, "failed to read PRD"))
              IN  /\ seen' = SeenLoad(r)
                  /\ IF prd_complete_before
                     THEN /\ events' = Append(sent,
                                 CompletedEvent(iteration - 1,
                                                AllStoriesComplete))
                          /\ outcome' = OutcomeCompleted(iteration - 1,
                                                         AllStoriesComplete)
                          /\ pc' = "done"
                          /\ UNCHANGED retry_attempt
                     ELSE /\ events' = sent
                          /\ retry_attempt' = 0
                          /\ pc' = "attempt"
                          /\ UNCHANGED outcome
       ELSE /\ retry_attempt' = 0
            /\ pc' = "attempt"
            /\ UNCHANGED <<events, seen, outcome>>
    /\ UNCHANGED <<config, cancel_flag, iteration, consecutive_failures,
                   prompt, child, alive, output, phrase_detected,
                   prd_complete_after, calls, sleeps>>
    /\ Emit

\* The circuit-breaker test made only before the first attempt of an iteration.
BreakerOpen_FirstAttemptOnly ==
    /\ config.circuit_breaker_threshold > 0
    /\ retry_attempt = 0
    /\ consecutive_failures >= config.circuit_breaker_threshold

\* The circuit-breaker test with the threshold compared strictly.
BreakerOpen_Strict ==
    /\ config.circuit_breaker_threshold > 0
    /\ consecutive_failures > config.circuit_breaker_threshold

\* The circuit-breaker test without the test for a threshold of 0.
BreakerOpen_NoDisable ==
    consecutive_failures >= config.circuit_breaker_threshold

\* The circuit-breaker test made before every attempt.
BreakerOpen ==
    /\ config.circuit_breaker_threshold > 0
    /\ consecutive_failures >= config.circuit_breaker_threshold

\* Command::spawn inside Agent::run
SpawnResults == {"spawned", "AgentNotFound", "AgentError"}

AgentCall(kind, combined) ==
    [iteration |-> iteration, attempt |-> retry_attempt, kind |-> kind,
     combined |-> combined, prompt |-> prompt]

\* Attempt with the breaker test made after the agent process was spawned.
Attempt_ChecksAfterSpawn ==
    /\ pc = "attempt"
    /\ IF BreakerOpen
       THEN /\ events' = Append(events,
                   StoppedEvent(iteration,
                       CircuitBreakerTriggered(consecutive_failures)))
            /\ outcome' = OutcomeStopped(iteration,
                              CircuitBreakerTriggered(consecutive_failures))
            /\ pc' = "done"
            /\ alive' = alive + 1
            /\ seen' = [seen EXCEPT !.invocations = @ + 1]
            /\ UNCHANGED <<child, calls>>
       ELSE \E s \in SpawnResults :
              IF s = "spawned"
              THEN /\ \E c \in Children : child' = c
                   /\ alive' = alive + 1
                   /\ seen' = [seen EXCEPT !.invocations = @ + 1]
                   /\ pc' = "agent_running"
                   /\ UNCHANGED <<events, outcome, calls>>
              ELSE LET message == <<"agent failed", s>>
                   IN  /\ calls' = Append(calls, AgentCall(s, <<>>))
                       /\ seen' = [seen EXCEPT !.invocations = @ + 1,
                                               !.kinds = @ \cup {s}]
                       /\ events' = Append(events,
                              StoppedEvent(iteration, FatalError(message)))
                       /\ outcome' =
                              OutcomeStopped(iteration, FatalError(message))
                       /\ pc' = "done"
                       /\ UNCHANGED <<child, alive>>
    /\ UNCHANGED <<config, cancel_flag, iteration, consecutive_failures,
                   retry_attempt, prompt, output, phrase_detected,
                   prd_complete_after, sleeps>>
    /\ Emit

\* run(): head of the retry loop: breaker check, then Agent::run up to the
\* spawn; a spawn failure comes back at once and is fatal.
Attempt ==
    /\ pc = "attempt"
    /\ IF BreakerOpen
       THEN /\ events' = Append(events,
                   StoppedEvent(iteration,
                       CircuitBreakerTriggered(consecutive_failures)))
            /\ outcome' = OutcomeStopped(iteration,
                              CircuitBreakerTriggered(consecutive_failures))
            /\ pc' = "done"
            /\ UNCHANGED <<child, alive, calls, seen>>
       ELSE \E s \in SpawnResults :
              IF s = "spawned"
              THEN /\ \E c \in Children : child' = c
                   /\ alive' = alive + 1
                   /\ seen' = [seen EXCEPT !.invocations = @ + 1]
                   /\ pc' = "agent_running"
                   /\ UNCHANGED <<events, outcome, calls>>
              ELSE LET message == <<"agent failed", s>>
                   IN  /\ calls' = Append(calls, AgentCall(s, <<>>))
                       /\ seen' = [seen EXCEPT !.invocations = @ + 1,
                                               !.kinds = @ \cup {s}]
                       /\ events' = Append(events,
                              StoppedEvent(iteration, FatalError(message)))
                       /\ outcome' =
                              OutcomeStopped(iteration, FatalError(message))
                       /\ pc' = "done"
                       /\ UNCHANGED <<child, alive>>
    /\ UNCHANGED <<config, cancel_flag, iteration, consecutive_failures,
                   retry_attempt, prompt, output, phrase_detected,
                   prd_complete_after, sleeps>>
    /\ Emit

\* Retryable with every failure of a spawned agent taken as retryable.
Retryable_AnyFailure(kind) ==
    kind \in {"AgentErrorDetected", "AgentTimeout", "AgentError"}

\* Error::AgentErrorDetected | Error::AgentTimeout
Retryable(kind) == kind \in {"AgentErrorDetected", "AgentTimeout"}

\* ChildEnded without the kill on the timeout path.
ChildEnded_NoKillOnTimeout(kind) == kind \in {"Ok", "AgentErrorDetected"}

\* Agent::run: the returns before which the child is known to have ended:
\* child.wait() gave its exit status, or child.kill().await was made.
ChildEnded(kind) == kind \in {"Ok", "AgentErrorDetected", "AgentTimeout"}

\* The retry limit tested as retry_attempt > max_retries + 2.
RetriesExhausted_TwoMore(attempt) == attempt > config.max_retries + 2

\* The retry limit tested as retry_attempt > max_retries + 1.
RetriesExhausted_OneMore(attempt) == attempt > config.max_retries + 1

\* run(): the test made on the incremented retry_attempt.
RetriesExhausted(attempt) == attempt > config.max_retries

\* run(): Agent::run returns and the match on its result is taken.
AgentReturn ==
    /\ pc = "agent_running"
    /\ AgentRunReturns(child)
    /\ LET r == AgentRunResult(child, config)
           sent == events \o AgentRunEvents(child, config)
           combined == JoinLines(TextsOf(child.lines))
       IN  /\ calls' = Append(calls, AgentCall(r.kind, combined))
           /\ seen' = [seen EXCEPT
                  !.kinds = @ \cup {r.kind},
                  !.prompts = @ \cup {prompt},
                  !.failures_since_success =
                      IF r.kind = "Ok" THEN 0
                      ELSE IF r.kind \in {"AgentErrorDetected", "AgentTimeout"}
                      THEN @ + 1 ELSE @,
                  !.phrase = @ \/ (r.kind = "Ok" /\
                                   Occurs(combined, config.completion_phrase))]
           /\ child' = NoChild
           /\ alive' = IF ChildEnded(r.kind) THEN alive - 1 ELSE alive
           /\ IF r.kind = "Ok"
              THEN /\ consecutive_failures' = 0
                   /\ output' = r.output
                   /\ events' = sent
                   /\ pc' = "prd_after"
                   /\ UNCHANGED <<retry_attempt, sleeps, outcome>>
              ELSE IF Retryable(r.kind)
              THEN /\ retry_attempt' = retry_attempt + 1
                   /\ consecutive_failures' = consecutive_failures + 1
                   /\ IF RetriesExhausted(retry_attempt + 1)
                      THEN /\ output' = EmptyOutput
                           /\ events' = sent
                           /\ pc' = "prd_after"
                           /\ UNCHANGED sleeps
                      ELSE LET backoff ==
                                   backoff_secs[config.backoff][retry_attempt + 1]
                           IN  /\ events' = Append(sent,
                                      RetryScheduled(backoff,
                                          retry_attempt + 1,
                                          config.max_retries))
                               /\ sleeps' = Append(sleeps,
                                      [kind |-> "backoff", secs |-> backoff])
                               /\ pc' = "backoff_sleep"
                               /\ UNCHANGED output
                   /\ UNCHANGED outcome
              ELSE LET message == <<"agent failed", r.kind>>
                   IN  /\ events' = Append(sent,
                              StoppedEvent(iteration, FatalError(message)))
                       /\ outcome' =
                              OutcomeStopped(iteration, FatalError(message))
                       /\ pc' = "done"
                       /\ UNCHANGED <<consecutive_failures, retry_attempt,
                                      output, sleeps>>
    /\ UNCHANGED <<config, cancel_flag, iteration, prompt, phrase_detected,
                   prd_complete_after>>
    /\ Emit

\* BackoffDone with a cancellation check after the sleep.
BackoffDone_ChecksCancel ==
    /\ pc = "backoff_sleep"
    /\ IF is_cancelled
       THEN /\ events' = Append(events, StoppedEvent(iteration, Cancelled))
            /\ outcome' = OutcomeStopped(iteration, Cancelled)
            /\ pc' = "done"
       ELSE /\ pc' = "attempt"
            /\ UNCHANGED <<events, outcome>>
    /\ UNCHANGED <<config, cancel_flag, iteration, consecutive_failures,
                   locals, calls, sleeps, seen>>
    /\ Emit

\* run(): the backoff sleep ends; back to the head of the retry loop.
BackoffDone ==
    /\ pc = "backoff_sleep"
    /\ pc' = "attempt"
    /\ UNCHANGED <<config, cancel_flag, iteration, consecutive_failures,
                   locals, hist, outcome>>
    /\ Emit

\* run(): phrase test, PRD state after the agent, IterationFinished.
PrdAfter ==
    /\ pc = "prd_after"
    /\ LET detected == OutputContains(output, config.completion_phrase)
       IN  /\ phrase_detected' = detected
           /\ IF config.prd_path = "Some"
              THEN \E r \in PrdLoadResults :
                     /\ prd_complete_after' = PrdLoadComplete(r)
                     /\ seen' = SeenLoad(r)
                     /\ events' = events \o
                          << PrdLoadEvent(r, "failed to read PRD after agent"),
                             IterationFinished(iteration,
                                 detected \/ PrdLoadComplete(r)) >>
              ELSE /\ prd_complete_after' = FALSE
                   /\ events' = Append(events,
                          IterationFinished(iteration, detected))
                   /\ UNCHANGED seen
    /\ pc' = "decide"
    /\ UNCHANGED <<config, cancel_flag, iteration, consecutive_failures,
                   retry_attempt, prompt, child, alive, output, calls, sleeps,
                   outcome>>
    /\ Emit

\* The completion check with the checklist tested first.
CompletionDecision_PrdFirst(phrase, prd) ==
    IF prd THEN <<AllStoriesComplete>>
    ELSE IF phrase THEN <<CompletionPhraseDetected>>
    ELSE <<>>

\* The completion check: the reason to complete with, if any.
CompletionDecision(phrase, prd) ==
    IF phrase /\ prd THEN <<Both>>
    ELSE IF prd THEN <<AllStoriesComplete>>
    ELSE IF phrase THEN <<CompletionPhraseDetected>>
    ELSE <<>>

\* Decide with a cancellation check made before the completion conditions.
Decide_CancelFirst ==
    /\ pc = "decide"
    /\ LET d == CompletionDecision(phrase_detected, prd_complete_after)
       IN  IF is_cancelled
           THEN /\ events' = Append(events, StoppedEvent(iteration, Cancelled))
                /\ outcome' = OutcomeStopped(iteration, Cancelled)
                /\ pc' = "done"
                /\ UNCHANGED sleeps
           ELSE IF d # <<>>
           THEN /\ events' = Append(events, CompletedEvent(iteration, d[1]))
                /\ outcome' = OutcomeCompleted(iteration, d[1])
                /\ pc' = "done"
                /\ UNCHANGED sleeps
           ELSE /\ IF config.delay # 0
                   THEN /\ sleeps' = Append(sleeps,
                               [kind |-> "delay", secs |-> config.delay])
                        /\ pc' = "delay"
                   ELSE /\ pc' = "cancel_check"
                        /\ UNCHANGED sleeps
                /\ UNCHANGED <<events, outcome>>
    /\ UNCHANGED <<config, cancel_flag, iteration, consecutive_failures,
                   locals, calls, seen>>
    /\ Emit

\* run(): completion conditions; otherwise on to the delay.
Decide ==
    /\ pc = "decide"
    /\ LET d == CompletionDecision(phrase_detected, prd_complete_after)
       IN  IF d # <<>>
           THEN /\ events' = Append(events, CompletedEvent(iteration, d[1]))
                /\ outcome' = OutcomeCompleted(iteration, d[1])
                /\ pc' = "done"
                /\ UNCHANGED sleeps
           ELSE /\ IF config.delay # 0
                   THEN /\ sleeps' = Append(sleeps,
                               [kind |-> "delay", secs |-> config.delay])
                        /\ pc' = "delay"
                   ELSE /\ pc' = "cancel_check"
                        /\ UNCHANGED sleeps
                /\ UNCHANGED <<events, outcome>>
    /\ UNCHANGED <<config, cancel_flag, iteration, consecutive_failures,
                   locals, calls, seen>>
    /\ Emit

\* run(): the inter-iteration delay ends.
DelayDone ==
    /\ pc = "delay"
    /\ pc' = "cancel_check"
    /\ UNCHANGED <<config, cancel_flag, iteration, consecutive_failures,
                   locals, hist, outcome>>
    /\ Emit

\* CancelCheck sending Stopped(Cancelled) without returning.
CancelCheck_FallsThrough ==
    /\ pc = "cancel_check"
    /\ IF is_cancelled
       THEN /\ events' = Append(events, StoppedEvent(iteration, Cancelled))
            /\ pc' = "loop_top"
            /\ UNCHANGED outcome
       ELSE /\ pc' = "loop_top"
            /\ UNCHANGED <<events, outcome>>
    /\ UNCHANGED <<config, cancel_flag, iteration, consecutive_failures,
                   locals, calls, sleeps, seen>>
    /\ Emit

\* run(): cancellation check after the delay.
CancelCheck ==
    /\ pc = "cancel_check"
    /\ IF is_cancelled
       THEN /\ events' = Append(events, StoppedEvent(iteration, Cancelled))
            /\ outcome' = OutcomeStopped(iteration, Cancelled)
            /\ pc' = "done"
       ELSE /\ pc' = "loop_top"
            /\ UNCHANGED <<events, outcome>>
    /\ UNCHANGED <<config, cancel_flag, iteration, consecutive_failures,
                   locals, calls, sleeps, seen>>
    /\ Emit

RunStep ==
    \/ RunStart
    \/ LoopTop
    \/ StartIteration
    \/ ResolvePrompt
    \/ PrdBefore
    \/ Attempt
    \/ AgentReturn
    \/ BackoffDone
    \/ PrdAfter
    \/ Decide
    \/ DelayDone
    \/ CancelCheck

Next == RunStep \/ Cancel

Spec == Init /\ [][Next]_vars


(***************************************************************************)
(* The event channel (event.rs) with a receiver that does not keep up.     *)
(* The run is the same run(); its sends now go through the bounded channel *)
(* one at a time: a send returns when the event is queued or when the      *)
(* receiver is gone.  run() has returned when pc = "done" and the send of  *)
(* the terminal event has returned.                                        *)
(***************************************************************************)
run_vars == <<config, cancel_flag, pc, iteration, consecutive_failures,
              locals, hist, outcome>>

\* ChannelSend stopping the run when the send fails.
ChannelSend_FailureStops ==
    /\ unsent > 0
    /\ IF receiver = "dropped"
       THEN /\ unsent' = 0
            /\ pc' = "done"
            /\ outcome' = OutcomeStopped(iteration, FatalError(<<"send">>))
            /\ UNCHANGED <<config, cancel_flag, iteration,
                           consecutive_failures, locals, hist, queued>>
       ELSE /\ queued < ChannelSize
            /\ queued' = queued + 1
            /\ unsent' = unsent - 1
            /\ UNCHANGED run_vars
    /\ UNCHANGED <<receiver, others>>

\* let _ = events.send(event).await, for the next event of the step: with
\* the receiver gone the send fails at once and the error is discarded;
\* otherwise it returns when the channel has room for the event.
ChannelSend ==
    /\ unsent > 0
    /\ IF receiver = "dropped"
       THEN UNCHANGED queued
       ELSE /\ queued < ChannelSize
            /\ queued' = queued + 1
    /\ unsent' = unsent - 1
    /\ UNCHANGED <<run_vars, receiver, others>>

\* receiver.recv().await in the caller's task
Receive ==
    /\ receiver = "receiving"
    /\ queued > 0
    /\ queued' = queued - 1
    /\ UNCHANGED <<run_vars, unsent, receiver, others>>

\* The caller keeps the receiver and stops calling recv().
StopReceiving ==
    /\ receiver = "receiving"
    /\ receiver' = "idle"
    /\ UNCHANGED <<run_vars, queued, unsent, others>>

\* The caller drops the receiver: the channel is closed.
DropReceiver ==
    /\ receiver \in {"receiving", "idle"}
    /\ receiver' = "dropped"
    /\ queued' = 0
    /\ UNCHANGED <<run_vars, unsent, others>>

ChannelConfigs ==
    { c \in Configs :
        /\ c.max_iterations = MaxIterations
        /\ c.max_retries = MaxRetries
        /\ c.circuit_breaker_threshold = 0
        /\ c.delay = DEFAULT_DELAY_SECS
        /\ c.completion_phrase = CompletionPhrase
        /\ c.prd_path = "None"
        /\ c.prompt_source = "text" }

ChannelInit == InitWith(ChannelConfigs, "receiving")

ChannelNext ==
    \/ RunStep
    \/ Cancel
    \/ ChannelSend
    \/ Receive
    \/ StopReceiving
    \/ DropReceiver

ChannelSpec == ChannelInit /\ [][ChannelNext]_vars

\* run() is polled until it returns: its steps are taken and its sends
\* return whenever they can.  Nothing is assumed of the receiving side.
ChannelFairSpec ==
    ChannelSpec /\ WF_vars(RunStep) /\ WF_vars(ChannelSend)

(***************************************************************************)
(* The programs around the Runner.  The command-line program (main.rs)     *)
(* spawns handle_events on the receiver, awaits runner.run(), and then      *)
(* awaits the handler task before it returns its exit code.  The tests of   *)
(* the library (runner.rs, tests/integration.rs) await run() with the       *)
(* receiver at rest, drop the runner, and then receive until recv() gives   *)
(* None.  The Runner owns the only EventSender (Runner::new): the channel   *)
(* is closed when the Runner is dropped.                                    *)
(***************************************************************************)
\* main(): let event_task = tokio::spawn(handle_events(receiver, verbose))
MainProgram ==
    [program |-> "main", at |-> "run", runner |-> "held",
     events_loop |-> "running", exit_code |-> "none"]

\* test_runner_events_emitted: let (runner, mut rx, _handle) = Runner::new
TestProgram ==
    [program |-> "test", at |-> "run", runner |-> "held",
     events_loop |-> "pending", exit_code |-> "none"]

\* runner.run().await gives the outcome to the caller
RunReturned ==
    /\ caller.at = "run"
    /\ pc = "done"
    /\ unsent = 0
    /\ caller' = [caller EXCEPT !.at = "returned"]
    /\ UNCHANGED <<run_vars, chan, drain_vars, prompt_file,
                   prd_loaded, summary>>

\* drop(runner); // Drop to close the sender
DropRunner ==
    /\ caller.program = "test"
    /\ caller.at = "returned"
    /\ caller.runner = "held"
    /\ caller' = [caller EXCEPT !.runner = "dropped"]
    /\ UNCHANGED <<run_vars, chan, drain_vars, prompt_file,
                   prd_loaded, summary>>

\* main(): let _ = event_task.await
JoinEventTask ==
    /\ caller.program = "main"
    /\ caller.at = "returned"
    /\ caller' = [caller EXCEPT !.at = "waiting"]
    /\ UNCHANGED <<run_vars, chan, drain_vars, prompt_file,
                   prd_loaded, summary>>

\* the test enters its loop: while let Some(event) = rx.recv().await
DrainEvents ==
    /\ caller.program = "test"
    /\ caller.at = "returned"
    /\ caller.runner = "dropped"
    /\ caller' = [caller EXCEPT !.at = "waiting", !.events_loop = "running"]
    /\ receiver' = "receiving"
    /\ UNCHANGED <<run_vars, queued, unsent, drain_vars, prompt_file,
                   prd_loaded, summary>>

\* recv() gives None: the channel is empty and every sender is dropped; the
\* while-let loop is left, and handle_events returns with its receiver.
RecvNone ==
    /\ receiver = "receiving"
    /\ caller.events_loop = "running"
    /\ queued = 0
    /\ caller.runner = "dropped"
    /\ caller' = [caller EXCEPT !.events_loop = "ended"]
    /\ receiver' = IF caller.program = "main" THEN "dropped" ELSE "idle"
    /\ UNCHANGED <<run_vars, queued, unsent, drain_vars, prompt_file,
                   prd_loaded, summary>>

\* main(): the handler task is joined and the outcome gives the exit code;
\* the test goes on to its assertions.
CallerReturns ==
    /\ caller.at = "waiting"
    /\ caller.events_loop = "ended"
    /\ caller' = [caller EXCEPT
           !.at = "exited",
           !.exit_code =
               IF caller.program # "main" THEN "none"
               ELSE IF outcome.variant = "Completed" THEN "SUCCESS"
               ELSE "FAILURE"]
    /\ UNCHANGED <<run_vars, chan, drain_vars, prompt_file,
                   prd_loaded, summary>>

CliConfigs ==
    { [c EXCEPT !.max_iterations = n] :
        c \in ChannelConfigs, n \in {0, MaxIterations} }

CliInit ==
    \/ InitCalled(CliConfigs, "receiving", MainProgram)
    \/ InitCalled(CliConfigs, "idle", TestProgram)

CliNext ==
    \/ RunStep
    \/ ChannelSend
    \/ Receive
    \/ RunReturned
    \/ DropRunner
    \/ JoinEventTask
    \/ DrainEvents
    \/ RecvNone
    \/ CallerReturns

CliSpec == CliInit /\ [][CliNext]_vars

(***************************************************************************)
(* The run() future is polled until it returns: every step of run() that   *)
(* can be taken is eventually taken (a sleep ends, a child that lets       *)
(* Agent::run return makes it return).  Cancel is the caller's choice and  *)
(* carries no fairness.                                                    *)
(***************************************************************************)
FairSpec == Spec /\ WF_vars(RunStep)

(***************************************************************************)
(* print_prd_summary (main.rs), called by main() before the Runner is made: *)
(* it loads the checklist at --state and prints the progress and the next    *)
(* story, for every checklist of up to MaxStories stories.                   *)
(***************************************************************************)
PrdConfigs == { [c EXCEPT !.prd_path = "Some"] : c \in ChannelConfigs }

\* What Prd::load(state_path) gives print_prd_summary.
PrdSummaryLoads ==
    {[ok |-> FALSE, error |-> "PrdReadError"]}
        \cup {[ok |-> TRUE, stories |-> d] : d \in Checklists}

PrdInit ==
    InitHolding(PrdConfigs, "receiving",
                [MainProgram EXCEPT !.at = "summary"], PrdSummaryLoads)

\* print_prd_summary(&cli)
PrintPrdSummary ==
    /\ caller.at = "summary"
    /\ summary' =
         IF config.prd_path # "Some" THEN NoSummary
         ELSE IF prd_loaded.ok
         THEN [kind |-> "progress",
               completed |-> CompletedCount(prd_loaded.stories),
               total |-> Len(prd_loaded.stories),
               next |-> next_story(prd_loaded.stories)]
         ELSE [kind |-> "warning", error |-> prd_loaded.error]
    /\ caller' = [caller EXCEPT !.at = "run"]
    /\ UNCHANGED <<run_vars, chan, drain_vars, prompt_file, prd_loaded>>

PrdSpec == PrdInit /\ [][PrintPrdSummary]_vars

(***************************************************************************)
(* Runs of a configuration whose circuit breaker is disabled               *)
(* (circuit_breaker_threshold = 0).                                        *)
(***************************************************************************)
BreakerOffConfigs == {c \in Configs : c.circuit_breaker_threshold = 0}

BreakerOffInit == InitWith(BreakerOffConfigs, "draining")

BreakerOffSpec == BreakerOffInit /\ [][Next]_vars

(***************************************************************************)
(* Runs whose prompt comes from a file that is rewritten while they run    *)
(* (by the agent, or by anyone else).                                       *)
(***************************************************************************)
PromptConfigs ==
    { [c EXCEPT !.prompt_source = "file"] : c \in ChannelConfigs }

PromptInit == InitWith(PromptConfigs, "draining")

\* The file at Config.prompt_path is rewritten.
PromptFileWritten ==
    /\ pc # "done"
    /\ \E text \in PromptFiles \ {prompt_file} : prompt_file' = text
    /\ UNCHANGED <<run_vars, chan, caller, drain_vars, prd_loaded, summary>>

PromptNext == RunStep \/ Cancel \/ PromptFileWritten

PromptSpec == PromptInit /\ [][PromptNext]_vars

(***************************************************************************)
(* Runs that retry up to MaxAttempts times in their one iteration, for a   *)
(* range of backoff settings.                                              *)
(***************************************************************************)
BackoffConfigs ==
    { [c EXCEPT !.max_iterations = 1,
                !.max_retries = MaxAttempts,
                !.backoff = b] :
        c \in ChannelConfigs, b \in BackoffRange }

BackoffInit == InitWith(BackoffConfigs, "draining")

BackoffSpec == BackoffInit /\ [][Next]_vars

(***************************************************************************)
(* One Agent::run call, from the spawn to the return, for every way a      *)
(* child can interleave up to MaxLines lines on its two streams.           *)
(***************************************************************************)
RECURSIVE LineSeqs(_)
LineSeqs(n) ==
    IF n = 0 THEN {<<>>}
    ELSE LET shorter == LineSeqs(n - 1)
         IN  shorter \cup
             { Append(ls, Line(t, e)) :
                 ls \in {l \in shorter : Len(l) = n - 1},
                 t \in {<<>>, <<"a">>, <<"b">>}, e \in BOOLEAN }

TranscriptChildren ==
    { [lines |-> ls, ending |-> "exit", exit_code |-> <<0>>] :
        ls \in LineSeqs(MaxLines) }

\* run() at its first Agent::run call, the child just spawned.
TranscriptInit ==
    /\ config \in ChannelConfigs
    /\ cancel_flag = FALSE
    /\ pc = "agent_running"
    /\ iteration = 1
    /\ consecutive_failures = 0
    /\ retry_attempt = 0
    /\ prompt = get_prompt(config, TRUE).text
    /\ child \in TranscriptChildren
    /\ output = EmptyOutput
    /\ phrase_detected = FALSE
    /\ prd_complete_after = FALSE
    /\ events = << Started(config.max_iterations),
                   IterationStarted(1, config.max_iterations) >>
    /\ calls = <<>>
    /\ sleeps = <<>>
    /\ seen = [NothingSeen EXCEPT !.invocations = 1]
    /\ outcome = NoOutcome
    /\ alive = 1
    /\ queued = 0
    /\ unsent = 0
    /\ receiver = "draining"
    /\ caller = Library
    /\ pipes = NoPipes
    /\ reader = NoReader
    /\ prompt_file = PromptFile
    /\ prd_loaded = NoPrd
    /\ summary = NoSummary

TranscriptSpec == TranscriptInit /\ [][AgentReturn]_vars

(***************************************************************************)
(* The drain loop of Agent::run (agent.rs 125-243) step by step: the child *)
(* writes lines to its two pipes and closes them when it likes; the loop   *)
(* takes what tokio::select! gives it, a line or the end-of-input of one   *)
(* stream.  A read error (for instance a line that is not UTF-8) is not    *)
(* modelled.  texts, written and read are kept as sequences of lines.      *)
(***************************************************************************)
DrainTexts == {<<"a">>, <<"x", "E">>}

Streams == {"stdout", "stderr"}

\* Agent::run after the spawn: both pipes taken, nothing read.
DrainInit ==
    /\ config \in ChannelConfigs
    /\ cancel_flag = FALSE
    /\ pc = "agent_running"
    /\ iteration = 1
    /\ consecutive_failures = 0
    /\ retry_attempt = 0
    /\ prompt = get_prompt(config, TRUE).text
    /\ child = [lines |-> <<>>, ending |-> "streaming", exit_code |-> <<>>]
    /\ output = EmptyOutput
    /\ phrase_detected = FALSE
    /\ prd_complete_after = FALSE
    /\ events = << Started(config.max_iterations),
                   IterationStarted(1, config.max_iterations) >>
    /\ calls = <<>>
    /\ sleeps = <<>>
    /\ seen = [NothingSeen EXCEPT !.invocations = 1]
    /\ outcome = NoOutcome
    /\ alive = 1
    /\ queued = 0
    /\ unsent = 0
    /\ receiver = "draining"
    /\ caller = Library
    /\ pipes = [NoPipes EXCEPT !.out_open = TRUE, !.err_open = TRUE]
    /\ reader = [NoReader EXCEPT !.phase = "select"]
    /\ prompt_file = PromptFile
    /\ prd_loaded = NoPrd
    /\ summary = NoSummary

\* What a step of the drain loop or of the child leaves alone.
drain_frame == <<config, cancel_flag, pc, iteration, consecutive_failures,
                 locals, calls, sleeps, seen, outcome, chan, caller,
                 prompt_file, prd_loaded, summary>>

\* The child writes one more line to one of its pipes.
ChildWrites ==
    /\ ~reader.killed
    /\ Len(pipes.out_written) + Len(pipes.err_written) < MaxLines
    /\ \E text \in DrainTexts, s \in Streams :
         IF s = "stdout"
         THEN /\ pipes.out_open
              /\ pipes' = [pipes EXCEPT !.out_buf = Append(@, text),
                                        !.out_written = Append(@, text)]
         ELSE /\ pipes.err_open
              /\ pipes' = [pipes EXCEPT !.err_buf = Append(@, text),
                                        !.err_written = Append(@, text)]
    /\ UNCHANGED <<drain_frame, events, reader>>

\* The child closes one of its pipes (at the latest when it exits).
ChildCloses ==
    /\ \E s \in Streams :
         IF s = "stdout"
         THEN /\ pipes.out_open
              /\ pipes' = [pipes EXCEPT !.out_open = FALSE]
         ELSE /\ pipes.err_open
              /\ pipes' = [pipes EXCEPT !.err_open = FALSE]
    /\ UNCHANGED <<drain_frame, events, reader>>

\* ReadLine with every line sent as a stdout line (Event::agent_output).
ReadLine_Untagged(text, stderr) ==
    /\ reader' = [reader EXCEPT
           !.stdout_lines = IF stderr THEN @ ELSE Append(@, text),
           !.stderr_lines = IF stderr THEN Append(@, text) ELSE @,
           !.combined_lines = Append(@, text),
           !.read = Append(@, Line(text, stderr)),
           !.detected_error =
               DetectedError(<<Line(text, stderr)>>, config.error_patterns, @)]
    /\ events' = Append(events, AgentOutputEvent(text, FALSE))

\* Ok(Some(text)): the line goes to the capture of its stream and to the
\* combined capture, is sent as an event, and is tested for every pattern.
ReadLine(text, stderr) ==
    /\ reader' = [reader EXCEPT
           !.stdout_lines = IF stderr THEN @ ELSE Append(@, text),
           !.stderr_lines = IF stderr THEN Append(@, text) ELSE @,
           !.combined_lines = Append(@, text),
           !.read = Append(@, Line(text, stderr)),
           !.detected_error =
               DetectedError(<<Line(text, stderr)>>, config.error_patterns, @)]
    /\ events' = Append(events, AgentOutputEvent(text, stderr))

\* select!: stdout_reader.next_line() gives Ok(Some(text))
ReadStdout ==
    /\ reader.phase = "select"
    /\ pipes.out_buf # <<>>
    /\ ReadLine(Head(pipes.out_buf), FALSE)
    /\ pipes' = [pipes EXCEPT !.out_buf = Tail(@)]
    /\ UNCHANGED drain_frame

\* StdoutEof leaving the loop at once.
StdoutEof_BreaksAtOnce ==
    /\ reader.phase = "select"
    /\ pipes.out_buf = <<>>
    /\ ~pipes.out_open
    /\ reader' = [reader EXCEPT !.phase = "after_loop"]
    /\ UNCHANGED <<drain_frame, events, pipes>>

\* select!: stdout_reader.next_line() gives Ok(None): stderr is read alone
StdoutEof ==
    /\ reader.phase = "select"
    /\ pipes.out_buf = <<>>
    /\ ~pipes.out_open
    /\ reader' = [reader EXCEPT !.phase = "drain_stderr"]
    /\ UNCHANGED <<drain_frame, events, pipes>>

\* select!: stderr_reader.next_line() gives Ok(Some(text))
ReadStderr ==
    /\ reader.phase = "select"
    /\ pipes.err_buf # <<>>
    /\ ReadLine(Head(pipes.err_buf), TRUE)
    /\ pipes' = [pipes EXCEPT !.err_buf = Tail(@)]
    /\ UNCHANGED drain_frame

\* select!: stderr_reader.next_line() gives Ok(None): the loop goes on; the
\* first time is recorded with the number of lines read so far.
StderrEof ==
    /\ reader.phase = "select"
    /\ pipes.err_buf = <<>>
    /\ ~pipes.err_open
    /\ reader.stderr_eof_at = <<>>
    /\ reader' = [reader EXCEPT !.stderr_eof_at = <<Len(reader.read)>>]
    /\ UNCHANGED <<drain_frame, events, pipes>>

\* while let Ok(Some(text)) = stderr_reader.next_line().await
DrainStderr ==
    /\ reader.phase = "drain_stderr"
    /\ pipes.err_buf # <<>>
    /\ ReadLine(Head(pipes.err_buf), TRUE)
    /\ pipes' = [pipes EXCEPT !.err_buf = Tail(@)]
    /\ UNCHANGED drain_frame

\* the while-let ends on Ok(None); break
DrainStderrEof ==
    /\ reader.phase = "drain_stderr"
    /\ pipes.err_buf = <<>>
    /\ ~pipes.err_open
    /\ reader' = [reader EXCEPT !.phase = "after_loop"]
    /\ UNCHANGED <<drain_frame, events, pipes>>

\* How the child ends for child.wait() under the timeout.
DrainEndings == {"exit", "hang_closed", "wait_failed"}

\* After the loop: kill and Err on a detected error; otherwise child.wait()
\* under the timeout, and AgentFinished and the output on an exit status.
DrainReturn ==
    /\ reader.phase = "after_loop"
    /\ \E ending \in DrainEndings, code \in {<<0>>, <<1>>} :
         LET r == IF reader.detected_error # <<>>
                  THEN [kind |-> "AgentErrorDetected",
                        pattern |-> reader.detected_error[1]]
                  ELSE IF ending = "hang_closed"
                  THEN [kind |-> "AgentTimeout",
                        timeout_secs |-> config.agent_timeout_secs]
                  ELSE IF ending = "wait_failed"
                  THEN [kind |-> "AgentError", message |-> "wait failed"]
                  ELSE [kind |-> "Ok",
                        output |->
                          [stdout |-> JoinLines(reader.stdout_lines),
                           stderr |-> JoinLines(reader.stderr_lines),
                           combined |-> JoinLines(reader.combined_lines),
                           exit_code |-> code]]
         IN  /\ reader' = [reader EXCEPT
                    !.phase = "returned",
                    !.killed = r.kind \in {"AgentErrorDetected",
                                           "AgentTimeout"},
                    !.result = r]
             /\ events' = events \o
                    ( IF r.kind = "AgentErrorDetected"
                      THEN <<AgentErrorDetectedEvent(r.pattern)>>
                      ELSE IF r.kind = "AgentTimeout"
                      THEN <<AgentTimeoutEvent(r.timeout_secs)>>
                      ELSE IF r.kind = "Ok" THEN <<AgentFinished(code)>>
                      ELSE <<>> )
    /\ UNCHANGED <<drain_frame, pipes>>

DrainReaderStep ==
    \/ ReadStdout
    \/ StdoutEof
    \/ ReadStderr
    \/ StderrEof
    \/ DrainStderr
    \/ DrainStderrEof
    \/ DrainReturn

DrainNext == ChildWrites \/ ChildCloses \/ DrainReaderStep

DrainSpec == DrainInit /\ [][DrainNext]_vars

(***************************************************************************)
(* Vocabulary of the properties.                                           *)
(***************************************************************************)
Done == pc = "done"

\* Agent::run is in flight on a child that never lets it return.
Hung == pc = "agent_running" /\ ~AgentRunReturns(child)

EventsOfType(t) == {i \in 1..Len(events) : events[i].type = t}

TerminalEvents ==
    {i \in 1..Len(events) : events[i].type \in {"Completed", "Stopped"}}

\* The iteration numbers of the IterationStarted events, in the order sent.
RECURSIVE StartedNumbers(_)
StartedNumbers(es) ==
    IF es = <<>> THEN <<>>
    ELSE IF es[1].type = "IterationStarted"
         THEN <<es[1].iteration>> \o StartedNumbers(Tail(es))
         ELSE StartedNumbers(Tail(es))

\* Once run() has returned nothing more is sent, called or counted.
DoneIsFinal ==
    Done => /\ pc' = "done"
            /\ UNCHANGED <<events, calls, sleeps, seen, outcome, iteration>>

NeverCancelled == ~cancel_flag
EveryInvocationSucceeded == seen.kinds \subseteq {"Ok"} /\ ~Hung
NoCompletionSignalled == ~seen.phrase /\ ~seen.prd_complete

(***************************************************************************)
(* C1.  A run that is never cancelled and whose agent never signals        *)
(* completion (every invocation succeeds, no transcript holds the phrase,  *)
(* no checklist loads complete) ends with Stopped(MaxIterations) and       *)
(* iterations = max_iterations after exactly max_iterations invocations.   *)
(***************************************************************************)
C1_Hypothesis ==
    NeverCancelled /\ EveryInvocationSucceeded /\ NoCompletionSignalled

C1_Conclusion ==
    /\ outcome = OutcomeStopped(config.max_iterations, MaxIterationsReason)
    /\ iteration = config.max_iterations
    /\ seen.invocations = config.max_iterations

\* C1 as stated: every finished run under the hypothesis ends that way.
C1_AsStated == (Done /\ C1_Hypothesis) => C1_Conclusion

\* C1 amended: the same, for runs whose prompt resolved in every iteration;
\* and every such run does finish.
C1_StopsAtMaxIterations ==
    /\ []((Done /\ C1_Hypothesis /\ ~seen.prompt_error) => C1_Conclusion)
    /\ [](iteration <= config.max_iterations)
    /\ <>(Done \/ ~C1_Hypothesis)

C1_Witness ==
    /\ Done
    /\ C1_Hypothesis
    /\ ~seen.prompt_error
    /\ config.max_iterations = MaxIterations
    /\ config.prd_path = "Some"
    /\ config.circuit_breaker_threshold > 0
    /\ seen.invocations = MaxIterations


(***************************************************************************)
(* C2.  When cancel was requested before the first top-of-loop check, that *)
(* check ends the run with Stopped(Cancelled) and iterations = 0: no       *)
(* IterationStarted is sent and the agent is never invoked.                *)
(***************************************************************************)
LastEvent(es) == es[Len(es)]

C2_FirstCheckCancelled == pc = "loop_top" /\ iteration = 0 /\ cancel_flag

C2_CancelledBeforeStart ==
    [][ /\ C2_FirstCheckCancelled =>
             /\ pc' = "done"
             /\ outcome' = OutcomeStopped(0, Cancelled)
             /\ LastEvent(events') = StoppedEvent(0, Cancelled)
             /\ StartedNumbers(events') = <<>>
             /\ seen'.invocations = 0
        /\ DoneIsFinal ]_vars

C2_Witness ==
    /\ Done
    /\ outcome = OutcomeStopped(0, Cancelled)
    /\ config.max_iterations = MaxIterations
    /\ config.prd_path = "Some"
    /\ config.prompt_source = "none"

(***************************************************************************)
(* C3.  When the first pre-agent check finds the configured checklist      *)
(* complete, the run returns Completed{0, AllStoriesComplete} and the      *)
(* agent is never invoked.                                                 *)
(***************************************************************************)
C3_CompleteBeforeFirstInvocation ==
    config.prd_path = "Some" /\ seen.prd_complete /\ seen.invocations = 0

C4_Case ==
    /\ config.prd_path = "None"
    /\ config.delay = 0
    /\ seen.kinds \subseteq {"Ok"}
    /\ seen.phrase

C4_LifecycleUpTo(k) ==
    <<Started(config.max_iterations)>>
        \o [i \in 1..k |-> IterationStarted(i, config.max_iterations)]

C4_CompletesOnKthInvocation ==
    /\ [](C4_Case =>
            \* the call that returned the phrase is the k-th of the run, made
            \* in iteration k, and the first to hold the phrase
            /\ seen.invocations = iteration
            /\ iteration \in 1..config.max_iterations
            /\ Len(calls) = 1
            /\ Occurs(calls[1].combined, config.completion_phrase)
            /\ StartedNumbers(events) = [i \in 1..iteration |-> i])
    /\ []((C4_Case /\ Done) =>
            /\ outcome = OutcomeCompleted(seen.invocations,
                                          CompletionPhraseDetected)
            /\ Lifecycle(events) =
                  Append(C4_LifecycleUpTo(seen.invocations),
                         CompletedEvent(seen.invocations,
                                        CompletionPhraseDetected))
            /\ LastEvent(events) = CompletedEvent(seen.invocations,
                                                  CompletionPhraseDetected))
    /\ (C4_Case ~> Done)

C4_Witness ==
    /\ C4_Case
    /\ Done
    /\ seen.invocations = MaxIterations
    /\ config.completion_phrase = CompletionPhrase
    /\ calls[1].combined # CompletionPhrase
    /\ cancel_flag

(***************************************************************************)
(* C5.  The completion check maps (phrase_detected, prd_complete_after) to *)
(* Both, AllStoriesComplete, CompletionPhraseDetected or "continue", in    *)
(* every state in which it is made.                                        *)
(***************************************************************************)
C5_Completes(reason) ==
    /\ pc' = "done"
    /\ outcome' = OutcomeCompleted(iteration, reason)
    /\ events' = Append(events, CompletedEvent(iteration, reason))

C5_Continues ==
    /\ pc' \in {"delay", "cancel_check"}
    /\ outcome' = NoOutcome
    /\ events' = events

C5_CompletionDecision ==
    [][ (pc = "decide" /\ pc' # "decide") =>
          /\ (phrase_detected /\ prd_complete_after) => C5_Completes(Both)
          /\ (~phrase_detected /\ prd_complete_after) =>
                 C5_Completes(AllStoriesComplete)
          /\ (phrase_detected /\ ~prd_complete_after) =>
                 C5_Completes(CompletionPhraseDetected)
          /\ (~phrase_detected /\ ~prd_complete_after) => C5_Continues ]_vars

C5_Witness ==
    /\ Done
    /\ phrase_detected
    /\ prd_complete_after
    /\ outcome = OutcomeCompleted(MaxIterations, Both)

(***************************************************************************)
(* C6.  Threshold T > 0 and an agent whose every invocation times out: the *)
(* run stops with Stopped(CircuitBreakerTriggered{T}) after exactly T      *)
(* invocations, with at most max_retries backoff sleeps in any iteration.  *)
(* The run is taken uncancelled, its prompt resolving, its checklist never *)
(* complete and its completion phrase not empty.                           *)
(***************************************************************************)
BackoffSleeps == {i \in 1..Len(sleeps) : sleeps[i].kind = "backoff"}

C6_Hypothesis ==
    /\ config.circuit_breaker_threshold > 0
    /\ seen.kinds \subseteq {"AgentTimeout"}
    /\ ~Hung
    /\ NeverCancelled
    /\ ~seen.prompt_error
    /\ ~seen.prd_complete
    /\ config.completion_phrase # <<>>

C6_Tripped ==
    /\ outcome.variant = "Stopped"
    /\ outcome.reason =
           CircuitBreakerTriggered(config.circuit_breaker_threshold)
    /\ seen.invocations = config.circuit_breaker_threshold
    /\ Cardinality(BackoffSleeps) <= config.max_retries

\* C6 as stated: for every max_iterations and max_retries.
C6_AsStated == (Done /\ C6_Hypothesis /\ seen.invocations > 0) => C6_Tripped

\* The iterations allow T invocations and one more attempt.
C6_Budget ==
    config.max_iterations * (config.max_retries + 1)
        > config.circuit_breaker_threshold

\* C6 amended: the same when max_iterations * (max_retries + 1) > T; the
\* breaker then trips in iteration T \div (max_retries + 1) + 1, and every
\* such run does stop.
C6_CircuitBreakerStops ==
    /\ []((Done /\ C6_Hypothesis /\ C6_Budget) =>
            /\ C6_Tripped
            /\ outcome.iterations =
                 (config.circuit_breaker_threshold
                      \div (config.max_retries + 1)) + 1
            /\ LastEvent(events) =
                 StoppedEvent(outcome.iterations, outcome.reason))
    /\ [](C6_Hypothesis =>
            /\ seen.invocations <= config.circuit_breaker_threshold
            /\ Cardinality(BackoffSleeps) <= config.max_retries)
    /\ <>(Done \/ ~C6_Hypothesis)

C6_Witness ==
    /\ Done
    /\ C6_Hypothesis
    /\ C6_Budget
    /\ config.circuit_breaker_threshold = MaxThreshold
    /\ config.max_retries = MaxRetries
    /\ seen.invocations = MaxThreshold
    /\ outcome.reason = CircuitBreakerTriggered(MaxThreshold)

(***************************************************************************)
(* C7.  The event sequence of a run begins with its only Started event and *)
(* holds exactly one terminal event, sent last: none before run() returns  *)
(* is followed by another event, and nothing is sent after the return.     *)
(* Every run returns unless an agent invocation never does.                *)
(***************************************************************************)
C7_OneStartedOneTerminal ==
    /\ [](pc = "start" => events = <<>>)
    /\ [](pc # "start" =>
            /\ events[1] = Started(config.max_iterations)
            /\ EventsOfType("Started") = {1})
    /\ [](~Done => TerminalEvents = {})
    /\ [](Done => TerminalEvents = {Len(events)} /\ child = NoChild)
    /\ [][DoneIsFinal]_vars
    /\ <>(Done \/ Hung)

C7_Witness ==
    /\ Done
    /\ TerminalEvents = {Len(events)}
    /\ Len(events) > MaxIterations + 2
    /\ iteration = MaxIterations
    /\ events[Len(events) - 1].type = "IterationFinished"

(***************************************************************************)
(* C8.  When run() returns, the Outcome it returns has the variant, the    *)
(* iterations and the reason (message and failure count included) of the   *)
(* terminal event sent just before; what it returns is always an Outcome.  *)
(***************************************************************************)
C8_OutcomeOf(e) ==
    [variant |-> e.type, iterations |-> e.iterations, reason |-> e.reason]

C8_OutcomeMirrorsTerminalEvent ==
    /\ ~Done => outcome = NoOutcome
    /\ Done =>
         /\ outcome.variant \in {"Completed", "Stopped"}
         /\ LastEvent(events).type \in {"Completed", "Stopped"}
         /\ outcome = C8_OutcomeOf(LastEvent(events))

C8_Witness ==
    /\ Done
    /\ outcome.variant = "Stopped"
    /\ outcome.reason.tag = "FatalError"
    /\ seen.prompt_error
    /\ outcome.iterations = MaxIterations

(***************************************************************************)
(* C9.  The iteration counter starts at 0, changes only by +1 and never    *)
(* exceeds max_iterations; the IterationStarted events carry 1, 2, 3, ...  *)
(* up to the counter, each once and in order.                              *)
(***************************************************************************)
C9_IterationNumbering ==
    /\ [](pc = "start" => iteration = 0)
    /\ [][iteration' = iteration \/ iteration' = iteration + 1]_vars
    /\ [](iteration <= config.max_iterations)
    /\ [](StartedNumbers(events) = [i \in 1..iteration |-> i])
    /\ [](\A i \in EventsOfType("IterationStarted") :
              events[i].max_iterations = config.max_iterations)

C9_Witness ==
    /\ iteration = MaxIterations
    /\ MaxIterations > 1
    /\ StartedNumbers(events) = [i \in 1..MaxIterations |-> i]
    /\ pc = "agent_running"

(***************************************************************************)
(* C10.  Within one iteration a timeout or detected error pattern is       *)
(* retried at most max_retries times; when invocation max_retries + 1 of   *)
(* the iteration fails too, the iteration goes on with an empty result to  *)
(* the completion check, and from there to completion, to the next         *)
(* iteration, or to the stop for cancellation or the iteration limit.      *)
(***************************************************************************)
C10_RetryableKinds == {"AgentTimeout", "AgentErrorDetected"}

\* Agent::run calls of the current iteration, the one in flight included.
C10_Invocations == Len(calls) + (IF pc = "agent_running" THEN 1 ELSE 0)

\* The latest call of the iteration failed retryably and no retry follows.
C10_GaveUp ==
    /\ calls # <<>>
    /\ calls[Len(calls)].kind \in C10_RetryableKinds
    /\ pc \in {"prd_after", "decide", "delay", "cancel_check", "loop_top",
              "start_iteration"}

\* How far the iteration has got after the retry loop.
C10_Stage ==
    CASE pc = "prd_after" -> 1
      [] pc = "decide" -> 2
      [] pc = "delay" -> 3
      [] pc = "cancel_check" -> 4
      [] pc = "loop_top" -> 5
      [] pc = "start_iteration" -> 6
      [] OTHER -> 0

C10_RetriesBounded ==
    /\ [](C10_Invocations <= config.max_retries + 1)
    /\ [](Cardinality(BackoffSleeps) <= config.max_retries)
    /\ [](Cardinality(EventsOfType("RetryScheduled")) <= config.max_retries)
    /\ [](C10_GaveUp =>
            /\ Len(calls) = config.max_retries + 1
            /\ \A i \in 1..Len(calls) : calls[i].kind \in C10_RetryableKinds
            /\ output = EmptyOutput
            /\ outcome = NoOutcome)
    /\ []((Done /\ calls # <<>>
                /\ calls[Len(calls)].kind \in C10_RetryableKinds) =>
            /\ outcome.variant = "Stopped" =>
                 outcome.reason \in
                   {Cancelled, MaxIterationsReason,
                    CircuitBreakerTriggered(consecutive_failures)}
            /\ (outcome.variant = "Stopped"
                  /\ outcome.reason \notin {Cancelled, MaxIterationsReason})
                 => Len(calls) <= config.max_retries)
    \* run() can always take its next step, and every step moves on: along
    \* prd_after, decide, delay, cancel_check, loop_top, to the next
    \* iteration, or to a return that is not a failure
    /\ [](C10_GaveUp => ENABLED RunStep)
    /\ [][C10_GaveUp =>
            \/ C10_GaveUp' /\ C10_Stage' > C10_Stage
            \/ C10_GaveUp' /\ pc' = pc /\ cancel_flag'
            \/ pc' = "get_prompt" /\ iteration' = iteration + 1
            \/ Done' /\ outcome'.variant = "Completed"
            \/ Done' /\ outcome'.reason \in {Cancelled, MaxIterationsReason}
         ]_vars

C10_Witness ==
    /\ pc = "get_prompt"
    /\ iteration = MaxIterations
    /\ MaxIterations > 1
    /\ config.max_retries = MaxRetries
    /\ consecutive_failures = MaxRetries + 1
    /\ seen.invocations = MaxRetries + 1
    /\ seen.kinds = {"AgentErrorDetected"}

(***************************************************************************)
(* C11.  An Agent::run failure other than a timeout or a detected error    *)
(* pattern stops the run at once with Stopped(FatalError) at the current   *)
(* iteration: no RetryScheduled, no backoff sleep and no further call      *)
(* follow it, whatever retries, iterations or breaker margin remain.       *)
(***************************************************************************)
C11_FatalKinds == {"AgentNotFound", "AgentError"}

C11_FailedFatally ==
    calls # <<>> /\ calls[Len(calls)].kind \in C11_FatalKinds

C11_FatalErrorStops ==
    /\ [](C11_FailedFatally =>
            LET reason ==
                  FatalError(<<"agent failed", calls[Len(calls)].kind>>)
            IN  /\ Done
                /\ outcome = OutcomeStopped(iteration, reason)
                /\ LastEvent(events) = StoppedEvent(iteration, reason)
                \* every RetryScheduled and sleep of the iteration belongs to
                \* an earlier call of it
                /\ Cardinality(EventsOfType("RetryScheduled")) = Len(calls) - 1
                /\ Len(sleeps) = Len(calls) - 1
                /\ seen.invocations >= Len(calls)
                /\ child = NoChild)
    /\ [][DoneIsFinal]_vars

C11_Witness ==
    /\ C11_FailedFatally
    /\ calls[1].kind = "AgentError"
    /\ iteration < config.max_iterations
    /\ retry_attempt < config.max_retries
    /\ config.circuit_breaker_threshold = MaxThreshold
    /\ consecutive_failures < MaxThreshold

(***************************************************************************)
(* C12.  When the prompt does not resolve in some iteration the run stops  *)
(* at once with Stopped(FatalError): that iteration loads no checklist and *)
(* calls no agent, and the prompt is not asked for again.                  *)
(***************************************************************************)
C12_Reasons ==
    { FatalError(<<"failed to read prompt", e>>) :
        e \in {"NoPrompt", "PromptReadError"} }

C12_PromptFailureStops ==
    /\ [](seen.prompt_error =>
            /\ Done
            /\ iteration >= 1
            /\ outcome.variant = "Stopped"
            /\ outcome.iterations = iteration
            /\ outcome.reason \in C12_Reasons
            \* the iteration sent IterationStarted and then Stopped only
            /\ LastEvent(events) = StoppedEvent(iteration, outcome.reason)
            /\ events[Len(events) - 1] =
                   IterationStarted(iteration, config.max_iterations)
            /\ calls = <<>>
            /\ sleeps = <<>>)
    /\ [][(pc = "get_prompt" /\ pc' # pc /\ config.prompt_source = "none")
             => seen'.prompt_error]_vars
    /\ [][DoneIsFinal]_vars

C12_Witness ==
    /\ seen.prompt_error
    /\ Done
    /\ iteration = MaxIterations
    /\ outcome.reason = FatalError(<<"failed to read prompt",
                                     "PromptReadError">>)
    /\ config.prd_path = "Some"
    /\ seen.invocations = MaxIterations - 1

(***************************************************************************)
(* C13.  A checklist load that fails, before or after the agent, sends one *)
(* Warning and counts as "not complete": the pre-agent check goes on to    *)
(* the agent, the post-agent check to IterationFinished and the completion *)
(* check with the phrase alone deciding; the run is never stopped by it.   *)
(***************************************************************************)
\* The step being taken loads the checklist and the load fails.
C13_LoadFails ==
    /\ pc \in {"prd_before", "prd_after"}
    /\ Len(events') > Len(events)
    /\ events'[Len(events) + 1].type = "Warning"

C13_LoadFailureIsNotFatal ==
    /\ [][(C13_LoadFails /\ pc = "prd_before") =>
            /\ Len(events') = Len(events) + 1
            /\ pc' = "attempt"
            /\ retry_attempt' = 0
            /\ outcome' = NoOutcome]_vars
    /\ [][(C13_LoadFails /\ pc = "prd_after") =>
            /\ events' = events \o
                 << events'[Len(events) + 1],
                    IterationFinished(iteration,
                        Occurs(output.combined, config.completion_phrase)) >>
            /\ prd_complete_after' = FALSE
            /\ phrase_detected' =
                   Occurs(output.combined, config.completion_phrase)
            /\ pc' = "decide"
            /\ outcome' = NoOutcome]_vars
    \* no stop is ever blamed on the checklist
    /\ []((Done /\ outcome.reason \in [tag : {"FatalError"},
                                       message : Seq(STRING)]) =>
              outcome.reason.message[1] \in
                  {"failed to read prompt", "agent failed"})

C13_Witness ==
    /\ pc = "attempt"
    /\ iteration = MaxIterations
    /\ Cardinality(EventsOfType("Warning")) = 1
    /\ seen.prd_error
    /\ ~seen.prd_complete
    /\ seen.invocations = MaxIterations - 1

(***************************************************************************)
(* C14.  The cancel flag is read at the top-of-loop check and at the check *)
(* after the delay only: requesting cancel changes nothing else, a run is  *)
(* stopped for cancellation nowhere else, and once cancel is requested at  *)
(* most one more IterationStarted is sent (the one of an iteration whose   *)
(* top-of-loop check had already passed).                                  *)
(***************************************************************************)
C14_StoppedForCancel ==
    /\ pc' = "done"
    /\ pc # "done"
    /\ outcome'.reason = Cancelled

C14_CancelNotPreemptive ==
    /\ [][(cancel_flag' /\ ~cancel_flag) =>
             UNCHANGED <<config, pc, iteration, consecutive_failures, locals,
                         hist, outcome, chan>>]_vars
    /\ [][C14_StoppedForCancel =>
             (cancel_flag /\ pc \in {"loop_top", "cancel_check"})]_vars
    /\ [][(cancel_flag /\ pc \in {"loop_top", "cancel_check"} /\ pc' # pc)
             => C14_StoppedForCancel]_vars
    /\ [][(cancel_flag /\ pc = "backoff_sleep" /\ pc' # pc)
             => pc' = "attempt"]_vars
    /\ [][(cancel_flag /\ pc # "start_iteration") =>
             /\ StartedNumbers(events') = StartedNumbers(events)
             /\ pc' # "start_iteration"]_vars
    /\ [][(cancel_flag /\ pc = "start_iteration") =>
             Len(StartedNumbers(events'))
                 <= Len(StartedNumbers(events)) + 1]_vars

C14_Witness ==
    /\ cancel_flag
    /\ pc = "agent_running"
    /\ retry_attempt = MaxRetries
    /\ iteration = MaxIterations
    /\ alive = 1

(***************************************************************************)
(* C15.  run() is never blocked for good on the event channel: while the   *)
(* consumer holds the receiver without receiving, a send that is pending,  *)
(* on a full channel too, can return, so that the run reaches its outcome. *)
(***************************************************************************)
\* run() has returned: the terminal event is sent and the outcome is set.
Returned == Done /\ unsent = 0

C15_AsStated ==
    (unsent > 0 /\ receiver = "idle") => ENABLED ChannelSend

\* The send is waiting for capacity that only the consumer can give.
C15_BlockedOnFullChannel ==
    /\ receiver = "idle"
    /\ queued = ChannelSize
    /\ unsent > 0
    /\ ~ENABLED RunStep
    /\ ~ENABLED ChannelSend
    /\ outcome = NoOutcome

(***************************************************************************)
(* C16.  Once the receiver is dropped every send fails at once and the     *)
(* failure is ignored: the failed send changes nothing of the run, the run *)
(* can always go on from it, as it does after a delivered send, and the    *)
(* outcome it returns with is one that its own history decides.            *)
(***************************************************************************)
C16_SendFailuresIgnored ==
    /\ []((receiver = "dropped" /\ unsent > 0) => ENABLED ChannelSend)
    /\ [][(receiver = "dropped" /\ unsent' # unsent /\ unsent > 0) =>
             /\ unsent' = unsent - 1
             /\ queued' = 0
             /\ UNCHANGED run_vars]_vars
    /\ [][(receiver = "dropped") => receiver' = "dropped"]_vars
    /\ []((receiver = "dropped" /\ unsent = 0 /\ ~Done /\ ~Hung)
             => ENABLED RunStep)
    \* no outcome is caused by the channel
    /\ []((Done /\ outcome.variant = "Stopped") =>
             \/ outcome.reason \in {MaxIterationsReason, Cancelled}
             \/ outcome.reason \in
                  { CircuitBreakerTriggered(n) : n \in 1..MaxThreshold }
             \/ outcome.reason \in C12_Reasons
             \/ outcome.reason \in
                  { FatalError(<<"agent failed", k>>) : k \in C11_FatalKinds })

C16_Witness ==
    /\ receiver = "dropped"
    /\ Returned
    /\ outcome.variant = "Completed"
    /\ iteration = MaxIterations
    /\ seen.invocations > MaxIterations

(***************************************************************************)
(* C17.  The backoff of retry attempt k, slept and announced in            *)
(* RetryScheduled, is floor(initial_backoff_secs * multiplier^(k-1)):      *)
(* 5, 10, 20 for initial 5 and multiplier 2, and 10, 15, 22 for initial 10 *)
(* and multiplier 1.5.  As computed, in f64, it is that floor for the      *)
(* multipliers that are multiples of 1/4 and that floor or one less for    *)
(* the others.                                                             *)
(***************************************************************************)
RECURSIVE C17_Pow(_, _)
C17_Pow(b, e) == IF e = 0 THEN 1 ELSE b * C17_Pow(b, e - 1)

\* The number a multiplier of the model was written as, num / den.
C17_Written(m) ==
    CASE m = F64_1_0 -> [num |-> 1, den |-> 1]
      [] m = F64_1_25 -> [num |-> 5, den |-> 4]
      [] m = F64_1_5 -> [num |-> 3, den |-> 2]
      [] m = F64_2_0 -> [num |-> 2, den |-> 1]
      [] m = F64_1_4 -> [num |-> 7, den |-> 5]

\* s = floor(initial * (num / den)^(k - 1)) - below, for below = 0 or 1
C17_IsFloorLess(s, k, below) ==
    LET w == C17_Written(config.backoff.multiplier)
        n == config.backoff.initial * C17_Pow(w.num, k - 1)
        d == C17_Pow(w.den, k - 1)
    IN  (s + below) * d <= n /\ n < (s + below + 1) * d

\* The backoffs announced in the iteration, first attempt first, and those
\* slept.
C17_Announced ==
    LET idx == EventsOfType("RetryScheduled")
        nth(k) == CHOOSE i \in idx :
                      Cardinality({j \in idx : j <= i}) = k
    IN  [k \in 1..Cardinality(idx) |-> events[nth(k)]]

C17_Slept ==
    LET nth(k) == CHOOSE i \in BackoffSleeps :
                      Cardinality({j \in BackoffSleeps : j <= i}) = k
    IN  [k \in 1..Cardinality(BackoffSleeps) |-> sleeps[nth(k)].secs]

C17_SleptIsAnnounced ==
    /\ Len(C17_Slept) = Len(C17_Announced)
    /\ \A k \in 1..Len(C17_Slept) :
         /\ C17_Announced[k].attempt = k
         /\ C17_Announced[k].backoff_secs = C17_Slept[k]

C17_Examples ==
    /\ (config.backoff = [initial |-> 5, multiplier |-> F64_2_0]) =>
          \A k \in 1..Len(C17_Slept) :
              k <= 3 => C17_Slept[k] = <<5, 10, 20>>[k]
    /\ (config.backoff = [initial |-> 10, multiplier |-> F64_1_5]) =>
          \A k \in 1..Len(C17_Slept) :
              k <= 3 => C17_Slept[k] = <<10, 15, 22>>[k]

C17_AsStated ==
    /\ C17_SleptIsAnnounced
    /\ C17_Examples
    /\ \A k \in 1..Len(C17_Slept) : C17_IsFloorLess(C17_Slept[k], k, 0)

C17_BackoffTruncatesF64 ==
    /\ C17_SleptIsAnnounced
    /\ C17_Examples
    /\ \A k \in 1..Len(C17_Slept) :
         /\ C17_Slept[k] = calculate_backoff(k, config)
         /\ \/ C17_IsFloorLess(C17_Slept[k], k, 0)
            \/ /\ C17_Written(config.backoff.multiplier).den \notin {1, 2, 4}
               /\ C17_IsFloorLess(C17_Slept[k], k, 1)

C17_Witness ==
    /\ config.backoff = [initial |-> 10, multiplier |-> F64_1_5]
    /\ Len(C17_Slept) = MaxAttempts
    /\ SubSeq(C17_Slept, 1, 3) = <<10, 15, 22>>
    /\ pc = "backoff_sleep"

(***************************************************************************)
(* C18.  Whatever the interleaving of the stdout and stderr lines read in  *)
(* one Agent::run call, the combined transcript is the lines in the order  *)
(* read, and its lines read from stdout (from stderr) are, in that order,  *)
(* the stdout-only (stderr-only) capture.                                  *)
(***************************************************************************)
\* The texts of the lines of read that came from the given stream.
RECURSIVE C18_Pick(_, _, _)
C18_Pick(read, stderr, i) ==
    IF i > Len(read) THEN <<>>
    ELSE (IF read[i].is_stderr = stderr THEN <<read[i].text>> ELSE <<>>)
            \o C18_Pick(read, stderr, i + 1)

\* The texts one per line.
RECURSIVE C18_Join(_, _)
C18_Join(texts, i) ==
    IF i > Len(texts) THEN <<>>
    ELSE (IF i > 1 THEN <<"\n">> ELSE <<>>) \o texts[i]
            \o C18_Join(texts, i + 1)

C18_TranscriptOrder ==
    [][(pc = "agent_running" /\ pc' = "prd_after" /\ calls' # calls
            /\ calls'[Len(calls')].kind = "Ok") =>
          LET read == child.lines
              all == [i \in 1..Len(read) |-> read[i].text]
          IN  /\ output'.combined = C18_Join(all, 1)
              /\ output'.stdout = C18_Join(C18_Pick(read, FALSE, 1), 1)
              /\ output'.stderr = C18_Join(C18_Pick(read, TRUE, 1), 1)
              /\ SubSeq(events', Len(events) + 1, Len(events) + Len(read)) =
                   [i \in 1..Len(read) |->
                      AgentOutputEvent(read[i].text, read[i].is_stderr)]]_vars

C18_Witness ==
    /\ pc = "prd_after"
    /\ output.combined = <<"a", "\n", "b", "\n", "a">>
    /\ output.stdout = <<"a", "\n", "a">>
    /\ output.stderr = <<"b">>

(***************************************************************************)
(* C19.  Every Agent::run call is bounded by the hard timeout: whatever    *)
(* the child does, a child that writes nothing, never exits and keeps its  *)
(* streams open included, Agent::run can return.                           *)
(***************************************************************************)
C19_AsStated ==
    (pc = "agent_running") => ENABLED AgentReturn

\* The child is silent with both streams open, and nothing ends the call.
C19_SilentHang ==
    /\ pc = "agent_running"
    /\ child.ending = "hang_open"
    /\ child.lines = <<>>
    /\ alive = 1
    /\ ~ENABLED RunStep

(***************************************************************************)
(* C20.  At most one child process of the run is alive at any time: a      *)
(* child is spawned only when no Agent::run call is in flight and the      *)
(* child of every earlier call has ended.                                  *)
(***************************************************************************)
C20_OneChildAtATime ==
    /\ [](alive \in {0, 1})
    /\ []((pc = "agent_running") <=> (child # NoChild))
    /\ []((pc = "agent_running") => alive = 1)
    /\ [][(alive' > alive) =>
             /\ alive = 0
             /\ child = NoChild
             /\ pc = "attempt"
             /\ pc' = "agent_running"]_vars
    \* a child not known to have ended is left only by the failure of
    \* child.wait(), which ends the run
    /\ []((alive = 1 /\ pc # "agent_running") =>
             (Done /\ C11_FailedFatally))

C20_Witness ==
    /\ pc = "agent_running"
    /\ alive = 1
    /\ iteration = MaxIterations
    /\ retry_attempt = MaxRetries
    /\ seen.invocations = MaxIterations + MaxRetries
    /\ "AgentTimeout" \in seen.kinds

(***************************************************************************)
(* C21.  The exit code of the agent decides nothing: the result of         *)
(* Agent::run, but for the exit_code it reports, and the completion check  *)
(* are the same for every exit code, none included, and what the run does  *)
(* next follows from the kind of the result, the transcript and the        *)
(* checklist alone.                                                        *)
(***************************************************************************)
C21_ExitCodes == {<<>>, <<0>>, <<1>>, <<2>>}

\* An Agent::run result with its exit code left out.
C21_Blind(r) ==
    IF r.kind = "Ok"
    THEN [kind |-> "Ok", stdout |-> r.output.stdout,
          stderr |-> r.output.stderr, combined |-> r.output.combined]
    ELSE r

C21_ExitCodeIgnored ==
    /\ [](pc = "agent_running" =>
            \A e \in C21_ExitCodes :
                LET twin == [child EXCEPT !.exit_code = e]
                IN  /\ AgentRunReturns(twin) = AgentRunReturns(child)
                    /\ C21_Blind(AgentRunResult(twin, config)) =
                           C21_Blind(AgentRunResult(child, config)))
    /\ [](\A e \in C21_ExitCodes :
            OutputContains([output EXCEPT !.exit_code = e],
                           config.completion_phrase)
                = OutputContains(output, config.completion_phrase))
    /\ [][(pc = "agent_running" /\ pc' # pc
              /\ calls'[Len(calls')].kind = "Ok") =>
             /\ pc' = "prd_after"
             /\ consecutive_failures' = 0
             /\ output'.combined = calls'[Len(calls')].combined]_vars
    /\ [][(pc = "prd_after" /\ pc' # pc) =>
             phrase_detected' =
                 Occurs(output.combined, config.completion_phrase)]_vars
    /\ [][(pc = "decide" /\ pc' # pc) =>
             ((pc' = "done") <=> (phrase_detected \/ prd_complete_after))]_vars

C21_Witness ==
    /\ Done
    /\ outcome.variant = "Completed"
    /\ output.exit_code = <<1>>
    /\ iteration = MaxIterations

\* C23: with a circuit-breaker threshold T > 0 the consecutive-failure
\* counter never exceeds T in any state of the run; an attempt is started
\* (the head of the retry loop goes on to spawn the agent) only with the
\* counter below T, so the counter is below T while an agent is in flight.
C23_FailuresWithinThreshold ==
    /\ [](config.circuit_breaker_threshold > 0 =>
            /\ consecutive_failures <= config.circuit_breaker_threshold
            /\ (pc = "agent_running" =>
                   consecutive_failures < config.circuit_breaker_threshold))
    /\ [][(config.circuit_breaker_threshold > 0 /\ pc = "attempt" /\
           seen'.invocations = seen.invocations + 1) =>
              consecutive_failures < config.circuit_breaker_threshold]_vars

\* An attempt in flight with the counter one below the largest threshold,
\* after an earlier failure.
C23_Witness ==
    /\ config.circuit_breaker_threshold = MaxThreshold
    /\ pc = "agent_running"
    /\ consecutive_failures = MaxThreshold - 1
    /\ consecutive_failures > 0

\* C24: in every state the consecutive-failure counter is the number of
\* retryable failures (timeout or detected error) returned since the last
\* successful invocation, or since the start of the run; a step changes it
\* only when an invocation returns: to zero on success, by one on a
\* retryable failure; no other step, the start of an iteration and the
\* abandoning of one included, changes it.
C24_CountsFailuresSinceSuccess ==
    /\ [](consecutive_failures = seen.failures_since_success)
    /\ [][LET returned == Len(calls') = Len(calls) + 1
              kind == calls'[Len(calls')].kind
          IN  consecutive_failures' =
                  IF returned /\ kind = "Ok" THEN 0
                  ELSE IF returned /\
                          kind \in {"AgentErrorDetected", "AgentTimeout"}
                  THEN consecutive_failures + 1
                  ELSE consecutive_failures]_vars

\* Two failures accumulated over two iterations, each abandoned after its
\* only attempt.
C24_Witness ==
    /\ config.max_retries = 0
    /\ iteration = 2
    /\ consecutive_failures = 2
    /\ Len(calls) = 1

C25_Tripped ==
    /\ outcome.variant = "Stopped"
    /\ outcome.reason.tag = "CircuitBreakerTriggered"

\* C25: a run that stops with CircuitBreakerTriggered{n} has n equal to the
\* configured threshold T; the T most recent invocations were retryable
\* failures with no success between them (the invocations of the stopping
\* iteration all failed retryably, and T retryable failures were returned
\* since the last success); the stop is decided at the head of the retry
\* loop with no agent process alive and none spawned by the stopping step.
C25_BreakerTripsAtThreshold ==
    /\ []((Done /\ C25_Tripped) =>
            /\ config.circuit_breaker_threshold > 0
            /\ outcome.reason.consecutive_failures =
                   config.circuit_breaker_threshold
            /\ seen.failures_since_success = config.circuit_breaker_threshold
            /\ seen.invocations >= config.circuit_breaker_threshold
            /\ \A i \in 1..Len(calls) :
                   calls[i].kind \in {"AgentErrorDetected", "AgentTimeout"}
            /\ child = NoChild
            /\ alive = 0
            /\ LastEvent(events) =
                   StoppedEvent(outcome.iterations, outcome.reason))
    /\ [][(~(Done /\ C25_Tripped) /\ (Done /\ C25_Tripped)') =>
              /\ pc = "attempt"
              /\ consecutive_failures = config.circuit_breaker_threshold
              /\ alive = 0
              /\ seen' = seen
              /\ calls' = calls
              /\ alive' = alive]_vars

\* The breaker trips on the failures that followed a success.
C25_Witness ==
    /\ Done
    /\ C25_Tripped
    /\ "Ok" \in seen.kinds
    /\ seen.invocations > config.circuit_breaker_threshold

\* The steps of run() one iteration can take, and how far the run has got:
\* a number that every step of run() increases.
C26_IterationSteps == 3 * config.max_retries + 11

C26_Limit == 2 + config.max_iterations * C26_IterationSteps

C26_Progress ==
    LET before == (iteration - 1) * C26_IterationSteps
    IN  CASE pc = "start" -> 0
          [] pc = "loop_top" -> 1 + iteration * C26_IterationSteps
          [] pc = "start_iteration" -> 2 + iteration * C26_IterationSteps
          [] pc = "get_prompt" -> before + 3
          [] pc = "prd_before" -> before + 4
          [] pc = "attempt" -> before + 5 + 3 * retry_attempt
          [] pc = "agent_running" -> before + 6 + 3 * retry_attempt
          [] pc = "backoff_sleep" -> before + 4 + 3 * retry_attempt
          [] pc = "prd_after" -> before + 3 * config.max_retries + 8
          [] pc = "decide" -> before + 3 * config.max_retries + 9
          [] pc = "delay" -> before + 3 * config.max_retries + 10
          [] pc = "cancel_check" -> before + 3 * config.max_retries + 11
          [] pc = "done" -> C26_Limit

\* C26: a run makes at most max_iterations * (max_retries + 1) agent
\* invocations and at most max_retries backoff sleeps in one iteration; as
\* long as it has not returned and is not inside an invocation that never
\* returns it can take a step, every step it takes brings it nearer to a
\* fixed limit, and at the limit it has returned with an outcome: run()
\* terminates when every invocation and every send returns.
C26_BoundedWorkThenOutcome ==
    /\ [](seen.invocations
              <= config.max_iterations * (config.max_retries + 1))
    /\ [](Cardinality(BackoffSleeps) <= config.max_retries)
    /\ [](C26_Progress \in 0..C26_Limit)
    /\ []((~Done /\ ~Hung) => ENABLED RunStep)
    /\ [][cancel_flag' = cancel_flag => C26_Progress' > C26_Progress]_vars
    /\ [][cancel_flag' # cancel_flag => C26_Progress' = C26_Progress]_vars
    /\ [](Done => outcome.variant \in {"Completed", "Stopped"})

\* The whole budget used: every attempt of every iteration made and failed.
C26_Witness ==
    /\ Done
    /\ config.max_iterations = MaxIterations
    /\ config.max_retries = MaxRetries
    /\ seen.invocations = MaxIterations * (MaxRetries + 1)
    /\ Cardinality(BackoffSleeps) = MaxRetries
    /\ outcome.variant = "Stopped"

\* C30 as stated: whenever no Agent::run call is in flight, every child
\* that was spawned has terminated and been waited on.
C30_AsStated == (pc # "agent_running") => alive = 0

\* Agent::run has returned the failure of child.wait(): the child was
\* spawned, was neither killed nor reaped, and the run has ended on it.
C30_WaitFailureLeavesChild ==
    /\ Done
    /\ alive = 1
    /\ child = NoChild
    /\ calls # <<>>
    /\ calls[Len(calls)].kind = "AgentError"
    /\ outcome = OutcomeStopped(iteration,
                      FatalError(<<"agent failed", "AgentError">>))

\* C27 as stated: once main waits for the event-handler task and the task
\* has consumed every event, the task observes the closed channel (recv()
\* gives None), so that it finishes and main returns its exit code.
C27_AsStated ==
    (/\ caller.program = "main"
     /\ caller.at = "waiting"
     /\ caller.events_loop = "running"
     /\ queued = 0) => ENABLED RecvNone

\* run() has returned its outcome, every event is consumed, main awaits the
\* handler task, the Runner and its sender are still held by main, and no
\* step is left to take.
C27_MainWaitsForEver ==
    /\ caller.program = "main"
    /\ caller.at = "waiting"
    /\ caller.runner = "held"
    /\ caller.exit_code = "none"
    /\ pc = "done"
    /\ outcome.variant = "Completed"
    /\ queued = 0
    /\ unsent = 0
    /\ receiver = "receiving"
    /\ ~ENABLED CliNext

\* C22 as stated: as soon as a line matching an error pattern has been
\* read, Agent::run can kill the child and return the detected-error
\* failure, whatever the two streams still do.
C22_AsStated ==
    (reader.detected_error # <<>> /\ reader.phase # "returned") =>
        ENABLED DrainReturn

\* The match is recorded, the child has gone silent with both pipes open,
\* it has not been killed, and the drain loop has no step to take: it waits
\* for the end of stdout.
C22_ErrorSeenLoopWaits ==
    /\ reader.detected_error = <<ErrorPattern>>
    /\ reader.phase = "select"
    /\ ~reader.killed
    /\ pipes.out_open
    /\ pipes.err_open
    /\ pipes.out_buf = <<>>
    /\ pipes.err_buf = <<>>
    /\ Len(reader.read) = MaxLines
    /\ ~ENABLED DrainReaderStep

\* What the drain loop has left to do once the child has closed both pipes.
C28_Left ==
    Len(pipes.out_buf) + Len(pipes.err_buf) +
    ( CASE reader.phase = "select" ->
               IF reader.stderr_eof_at = <<>> THEN 5 ELSE 4
        [] reader.phase = "drain_stderr" -> 3
        [] reader.phase = "after_loop" -> 1
        [] OTHER -> 0 )

C28_BothClosed == ~pipes.out_open /\ ~pipes.err_open

C29_OutputEvents == SubSeq(events, 3, 2 + Len(reader.read))

\* C29: every line read is once in the combined capture, at its place in
\* the order of reading, and once in the capture of the stream it was read
\* from, so that the combined capture has as many lines as the two others
\* together; the AgentOutput events of the invocation are the combined
\* capture line for line, each with is_stderr telling the stream its line
\* was read from; each read takes the line at the head of one pipe and
\* adds it to all three; the output returned holds the captures joined.
C29_EachLineOnce ==
    /\ [](/\ Len(reader.combined_lines) = Len(reader.read)
          /\ \A i \in 1..Len(reader.read) :
                 reader.combined_lines[i] = reader.read[i].text)
    /\ [](Len(reader.combined_lines) =
              Len(reader.stdout_lines) + Len(reader.stderr_lines))
    /\ [](/\ reader.stdout_lines = SelectLines(reader.read, FALSE)
          /\ reader.stderr_lines = SelectLines(reader.read, TRUE))
    /\ [](/\ Len(events) >= 2 + Len(reader.read)
          /\ Cardinality(EventsOfType("AgentOutput")) = Len(reader.read)
          /\ \A i \in 1..Len(reader.read) :
                 C29_OutputEvents[i] =
                     AgentOutputEvent(reader.combined_lines[i],
                                      reader.read[i].is_stderr))
    /\ [][reader'.read # reader.read =>
            LET line == reader'.read[Len(reader'.read)]
                from == IF line.is_stderr THEN pipes.err_buf
                        ELSE pipes.out_buf
                rest == IF line.is_stderr THEN pipes'.err_buf
                        ELSE pipes'.out_buf
            IN  /\ from # <<>>
                /\ line.text = Head(from)
                /\ rest = Tail(from)
                /\ reader'.read = Append(reader.read, line)
                /\ reader'.combined_lines =
                       Append(reader.combined_lines, line.text)
                /\ reader'.stdout_lines =
                       IF line.is_stderr THEN reader.stdout_lines
                       ELSE Append(reader.stdout_lines, line.text)
                /\ reader'.stderr_lines =
                       IF line.is_stderr
                       THEN Append(reader.stderr_lines, line.text)
                       ELSE reader.stderr_lines
                /\ events' = Append(events,
                       AgentOutputEvent(line.text, line.is_stderr))]_vars
    /\ []((reader.phase = "returned" /\ reader.result.kind = "Ok") =>
            reader.result.output =
                AgentOutputOf([lines |-> reader.read,
                               exit_code |-> reader.result.output.exit_code]))
    /\ [](reader.detected_error =
              DetectedError(reader.read, config.error_patterns, <<>>))

\* Three lines read alternately from stderr and stdout, and returned.
C29_Witness ==
    /\ reader.phase = "returned"
    /\ reader.result.kind = "Ok"
    /\ Len(reader.read) = 3
    /\ reader.read[1].is_stderr
    /\ ~reader.read[2].is_stderr
    /\ reader.read[3].is_stderr
    /\ Len(reader.combined_lines) = 3
    /\ Len(reader.stdout_lines) = 1

(***************************************************************************)
(* C31.  Retryable failures and the RetryScheduled events of an iteration.  *)
(***************************************************************************)
C31_IsRetryScheduled(e) == e.type = "RetryScheduled"

\* The Agent::run calls of the iteration that failed retryably.
C31_Failures ==
    {i \in 1..Len(calls) : calls[i].kind \in {"AgentErrorDetected",
                                               "AgentTimeout"}}

\* The RetryScheduled events of the iteration, in the order sent.
C31_Announced == SelectSeq(events, C31_IsRetryScheduled)

\* C31 as stated: every retryable failure of the iteration has its
\* RetryScheduled event; none is absorbed without one.
C31_AsStated == Len(C31_Announced) = Cardinality(C31_Failures)

\* C31 amended: a retryable failure is announced by RetryScheduled exactly
\* when a retry follows it, i.e. when it is at most the max_retries-th
\* failure of the iteration.  The event is then the last one sent before
\* the backoff sleep and carries the number of failures of the iteration so
\* far, the configured max_retries and the seconds slept.  The failure that
\* exhausts the retries gets no RetryScheduled: the last event of the step
\* is the AgentTimeout or AgentErrorDetected event of Agent::run.
C31_RetryAnnouncedWhenRetried ==
    /\ [](Len(C31_Announced) <= config.max_retries)
    /\ [](\A k \in 1..Len(C31_Announced) :
            /\ C31_Announced[k].attempt = k
            /\ C31_Announced[k].max_retries = config.max_retries
            /\ k \in C31_Failures
            /\ k \in BackoffSleeps
            /\ C31_Announced[k].backoff_secs = sleeps[k].secs)
    /\ [](pc = "backoff_sleep" =>
            /\ LastEvent(events) =
                   RetryScheduled(sleeps[Len(sleeps)].secs, retry_attempt,
                                  config.max_retries)
            /\ retry_attempt = Cardinality(C31_Failures)
            /\ retry_attempt = Len(C31_Announced))
    /\ [][(Len(calls') = Len(calls) + 1 /\ Len(calls') \in C31_Failures') =>
            IF Len(calls') <= config.max_retries
            THEN /\ pc' = "backoff_sleep"
                 /\ Len(C31_Announced') = Len(C31_Announced) + 1
                 /\ LastEvent(events').type = "RetryScheduled"
                 /\ LastEvent(events').attempt = Len(calls')
                 /\ Len(sleeps') = Len(sleeps) + 1
            ELSE /\ pc' = "prd_after"
                 /\ C31_Announced' = C31_Announced
                 /\ LastEvent(events').type \in {"AgentTimeout",
                                                 "AgentErrorDetected"}
                 /\ sleeps' = sleeps]_vars

\* The last retry of an iteration announced, its sleep pending.
C31_Witness ==
    /\ pc = "backoff_sleep"
    /\ config.max_retries = MaxRetries
    /\ retry_attempt = MaxRetries
    /\ LastEvent(events).type = "RetryScheduled"
    /\ LastEvent(events).attempt = MaxRetries
    /\ iteration = MaxIterations

\* C32 as stated: when the backoff sleep that follows a RetryScheduled event
\* is over, the retry is attempted: the head of the retry loop goes on to
\* Agent::run and does not stop the run.
C32_AsStated ==
    (/\ pc = "attempt"
     /\ retry_attempt > 0
     /\ LastEvent(events).type = "RetryScheduled") => ~BreakerOpen

\* A retry was announced and slept for, and the run stopped on the circuit
\* breaker without another Agent::run call.
C32_AnnouncedRetryNotMade ==
    /\ Done
    /\ outcome.variant = "Stopped"
    /\ outcome.reason = CircuitBreakerTriggered(consecutive_failures)
    /\ Len(events) > 1
    /\ events[Len(events) - 1] =
           RetryScheduled(sleeps[Len(sleeps)].secs, retry_attempt,
                          config.max_retries)
    /\ Len(calls) = retry_attempt
    /\ Len(sleeps) = retry_attempt
    /\ retry_attempt > 0

(***************************************************************************)
(* C33.  The prompt of an iteration.                                        *)
(***************************************************************************)
\* The events sent since the iteration was started.
C33_SinceStarted ==
    LET last == CHOOSE i \in EventsOfType("IterationStarted") :
                    \A j \in EventsOfType("IterationStarted") : j <= i
    IN  SubSeq(events, last + 1, Len(events))

\* C33: the prompt is resolved once in every started iteration: right after
\* IterationStarted, before the checklist is loaded and before any call of
\* Agent::run; the text is what the prompt source gives at that moment, so
\* a file rewritten since the iteration before is read anew; the prompt
\* does not change at any other step, and every call of the iteration,
\* retries included, is made with it, whatever the file holds by then.
C33_PromptOncePerIteration ==
    /\ [][pc' = "get_prompt" /\ pc # "get_prompt" =>
             /\ pc = "start_iteration"
             /\ iteration' = iteration + 1
             /\ LastEvent(events').type = "IterationStarted"]_vars
    /\ [](pc = "get_prompt" =>
            /\ calls = <<>>
            /\ C33_SinceStarted = <<>>)
    /\ [][pc = "get_prompt" /\ pc' # pc =>
             \/ /\ pc' = "prd_before"
                /\ prompt' = prompt_file \o CompletionInstruction
                /\ events' = events
             \/ /\ pc' = "done"
                /\ outcome'.reason.tag = "FatalError"
                /\ prompt' = prompt]_vars
    /\ [][pc # "get_prompt" => prompt' = prompt]_vars
    /\ [](\A i \in 1..Len(calls) : calls[i].prompt = prompt)
    /\ [][seen'.invocations = seen.invocations + 1 =>
             /\ prompt' = prompt
             /\ pc = "attempt"]_vars

\* Both iterations called the agent, each with the text the file held when
\* it began; the retry of the second used the same text as its first
\* attempt although the file had been rewritten again.
C33_Witness ==
    /\ iteration = 2
    /\ Len(calls) = 2
    /\ calls[1].prompt = <<"g">> \o CompletionInstruction
    /\ calls[2].prompt = <<"g">> \o CompletionInstruction
    /\ seen.prompts = {<<"f">> \o CompletionInstruction,
                       <<"g">> \o CompletionInstruction}
    /\ prompt_file = <<"f">>

(***************************************************************************)
(* C34.  The iterations value of the outcome and the IterationStarted       *)
(* events.                                                                  *)
(***************************************************************************)
C34_Started == Cardinality(EventsOfType("IterationStarted"))

\* C34: when run() returns, the iterations of its outcome is the number of
\* IterationStarted events sent, whatever the reason, except when the
\* return is made by the checklist check before the agent: the outcome is
\* then Completed(AllStoriesComplete) with one less than the events sent,
\* and the iteration just started has made no call.
C34_IterationsAreStarted ==
    /\ [](C34_Started = iteration)
    /\ [][(~Done /\ Done') =>
            IF pc = "prd_before"
            THEN /\ outcome' = OutcomeCompleted(C34_Started' - 1,
                                                AllStoriesComplete)
                 /\ C34_Started' = C34_Started
                 /\ C34_Started >= 1
                 /\ calls' = <<>>
                 /\ seen'.invocations = seen.invocations
            ELSE /\ outcome'.iterations = C34_Started'
                 /\ outcome'.variant \in {"Completed", "Stopped"}]_vars
    /\ [](Done =>
            /\ LastEvent(events).iterations = outcome.iterations
            /\ (outcome.iterations # C34_Started =>
                   /\ outcome.variant = "Completed"
                   /\ outcome.reason = AllStoriesComplete
                   /\ calls = <<>>))

\* The check before the agent of iteration 2 found the checklist complete.
C34_Witness ==
    /\ Done
    /\ C34_Started = 2
    /\ outcome = OutcomeCompleted(1, AllStoriesComplete)
    /\ calls = <<>>
    /\ seen.invocations > 0

(***************************************************************************)
(* C35.  The iteration abandoned after its retries and the completion      *)
(* phrase.                                                                  *)
(***************************************************************************)
\* The retries of the iteration are exhausted and its empty result is at
\* the completion check.
C35_Abandoned ==
    /\ pc \in {"prd_after", "decide"}
    /\ Len(calls) = config.max_retries + 1
    /\ calls[Len(calls)].kind \in {"AgentErrorDetected", "AgentTimeout"}

\* C35 as stated: for every configured phrase the abandoned iteration is
\* not phrase-detected.
C35_AsStated == (C35_Abandoned /\ pc = "decide") => ~phrase_detected

\* C35 amended: the empty result of an abandoned iteration contains the
\* completion phrase exactly when the phrase is the empty string.  With a
\* phrase that is not empty the iteration is not phrase-detected: it ends
\* the run only when the checklist is complete after it, as
\* Completed(AllStoriesComplete), and goes on to the delay or the cancel
\* check otherwise.  With the empty phrase it is phrase-detected and ends
\* the run as Completed(CompletionPhraseDetected) or Completed(Both).
C35_AbandonedIsNoOpUnlessEmptyPhrase ==
    /\ [](OutputContains(EmptyOutput, config.completion_phrase) <=>
              config.completion_phrase = <<>>)
    /\ [](C35_Abandoned => output = EmptyOutput)
    /\ []((C35_Abandoned /\ pc = "decide") =>
              (phrase_detected <=> config.completion_phrase = <<>>))
    /\ [][(C35_Abandoned /\ pc = "decide" /\ pc' # pc) =>
            IF config.completion_phrase # <<>>
            THEN IF prd_complete_after
                 THEN /\ pc' = "done"
                      /\ outcome' =
                             OutcomeCompleted(iteration, AllStoriesComplete)
                 ELSE /\ pc' = (IF config.delay # 0 THEN "delay"
                                ELSE "cancel_check")
                      /\ outcome' = NoOutcome
            ELSE /\ pc' = "done"
                 /\ outcome' = OutcomeCompleted(iteration,
                        IF prd_complete_after THEN Both
                        ELSE CompletionPhraseDetected)]_vars

\* An abandoned iteration ended the run through the checklist.
C35_Witness ==
    /\ Done
    /\ config.completion_phrase # <<>>
    /\ config.max_retries = MaxRetries
    /\ Len(calls) = MaxRetries + 1
    /\ calls[Len(calls)].kind = "AgentTimeout"
    /\ outcome = OutcomeCompleted(iteration, AllStoriesComplete)
    /\ output = EmptyOutput


(***************************************************************************)
(* C36.  When a line read from the child holds a configured error pattern, *)
(* Agent::run returns AgentErrorDetected, whatever the way the child ends  *)
(* and whether or not the transcript holds the completion phrase; run()    *)
(* takes the retryable arm of the match, and the phrase test is never made *)
(* on the transcript of a failed call.                                     *)
(***************************************************************************)
C36_ErrorLineRead ==
    \E i \in 1..Len(child.lines), k \in 1..Len(config.error_patterns) :
        Contains(child.lines[i].text, config.error_patterns[k])

C36_AgentEvents == {"AgentFinished", "AgentTimeout", "AgentErrorDetected"}

C36_DetectedErrorWins ==
    /\ [][(pc = "agent_running" /\ pc' # "agent_running" /\ C36_ErrorLineRead)
            => LET sent == SubSeq(events', Len(events) + 1, Len(events'))
                   told == SelectSeq(sent,
                               LAMBDA e : e.type \in C36_AgentEvents)
               IN  \* the result is the detected-error failure
                   /\ calls' = Append(calls,
                          AgentCall("AgentErrorDetected",
                                    JoinLines(TextsOf(child.lines))))
                   /\ Len(told) = 1
                   /\ \E k \in 1..Len(config.error_patterns) :
                        told[1] =
                            AgentErrorDetectedEvent(config.error_patterns[k])
                   \* and it is handled as a retryable failure
                   /\ retry_attempt' = retry_attempt + 1
                   /\ consecutive_failures' = consecutive_failures + 1
                   /\ pc' \in {"backoff_sleep", "prd_after"}
                   /\ pc' = "prd_after" =>
                        /\ retry_attempt' > config.max_retries
                        /\ output' = EmptyOutput
                   /\ outcome' = outcome
                   /\ phrase_detected' = phrase_detected
                   /\ seen'.phrase = seen.phrase]_vars
    \* the phrase is only ever found in the output of a successful call or
    \* in the empty output of an abandoned iteration
    /\ [](phrase_detected =>
            \/ output = EmptyOutput
            \/ /\ calls # <<>>
               /\ calls[Len(calls)].kind = "Ok"
               /\ output.combined = calls[Len(calls)].combined)

C36_Witness ==
    /\ pc = "backoff_sleep"
    /\ config.completion_phrase = CompletionPhrase
    /\ calls # <<>>
    /\ calls[Len(calls)].kind = "AgentErrorDetected"
    /\ Occurs(calls[Len(calls)].combined, ErrorPattern)
    /\ Occurs(calls[Len(calls)].combined, config.completion_phrase)
    /\ ~phrase_detected
    /\ ~Done


(***************************************************************************)
(* C37.  Where an iteration ends, completion found in that iteration wins  *)
(* over a cancellation requested while it ran (the run returns Completed), *)
(* and a pending cancellation wins over the iteration limit (the run       *)
(* returns Stopped(Cancelled) although iteration = max_iterations).        *)
(***************************************************************************)
C37_CompletionFound == phrase_detected \/ prd_complete_after

C37_AtLimit == iteration >= config.max_iterations

C37_TerminalPriority ==
    \* completion over cancellation
    /\ [][(pc = "decide" /\ pc' # pc /\ cancel_flag /\ C37_CompletionFound)
            => /\ pc' = "done"
               /\ \E reason \in {CompletionPhraseDetected, AllStoriesComplete,
                                 Both} :
                    /\ outcome' = OutcomeCompleted(iteration, reason)
                    /\ LastEvent(events') = CompletedEvent(iteration, reason)
               /\ EventsOfType("Stopped")' = {}]_vars
    \* cancellation over the iteration limit, after the delay and at the
    \* head of the loop
    /\ [][(pc \in {"cancel_check", "loop_top"} /\ pc' # pc /\ cancel_flag
             /\ C37_AtLimit)
            => /\ pc' = "done"
               /\ outcome' = OutcomeStopped(iteration, Cancelled)
               /\ LastEvent(events') = StoppedEvent(iteration, Cancelled)]_vars
    \* so Stopped(MaxIterations) is only ever returned without a pending
    \* cancellation, and Stopped(Cancelled) never with completion found
    /\ [][(pc # "done" /\ pc' = "done")
            => /\ outcome' = OutcomeStopped(iteration, MaxIterationsReason)
                    => ~cancel_flag
               /\ (outcome' = OutcomeStopped(iteration, Cancelled)
                     /\ pc = "cancel_check")
                    => ~C37_CompletionFound]_vars

C37_Witness ==
    /\ Done
    /\ config.max_iterations = MaxIterations
    /\ iteration = config.max_iterations
    /\ outcome = OutcomeStopped(iteration, Cancelled)
    /\ seen.invocations = MaxIterations
    /\ seen.kinds = {"Ok"}


(***************************************************************************)
(* C38.  With circuit_breaker_threshold = 0 no run stops with              *)
(* CircuitBreakerTriggered, however many consecutive failures there are.   *)
(* A run that is not cancelled, whose agent fails retryably at every       *)
(* invocation, whose prompt resolves, whose checklist is never complete    *)
(* and whose completion phrase is not empty ends with                      *)
(* Stopped(MaxIterations), iterations = max_iterations, after exactly      *)
(* max_iterations * (max_retries + 1) invocations.                         *)
(***************************************************************************)
C38_AlwaysFailsRetryably ==
    seen.kinds \subseteq {"AgentTimeout", "AgentErrorDetected"} /\ ~Hung

C38_Conclusion ==
    /\ outcome = OutcomeStopped(config.max_iterations, MaxIterationsReason)
    /\ iteration = config.max_iterations
    /\ seen.invocations = config.max_iterations * (config.max_retries + 1)

\* C38 as stated: an agent that always fails retryably and no cancellation.
C38_AsStated ==
    (Done /\ NeverCancelled /\ C38_AlwaysFailsRetryably) => C38_Conclusion

C38_Hypothesis ==
    /\ NeverCancelled
    /\ C38_AlwaysFailsRetryably
    /\ ~seen.prompt_error
    /\ ~seen.prd_complete
    /\ config.completion_phrase # <<>>

C38_BreakerDisabled ==
    \* the breaker never trips
    /\ [](config.circuit_breaker_threshold = 0)
    /\ [](~BreakerOpen)
    /\ [](\A i \in 1..Len(events) :
             events[i].type = "Stopped"
                 => events[i].reason.tag # "CircuitBreakerTriggered")
    /\ [](Done => (outcome.variant = "Stopped"
                     => outcome.reason.tag # "CircuitBreakerTriggered"))
    \* every failure is counted, and the count stops nothing
    /\ [](C38_Hypothesis =>
            /\ consecutive_failures = seen.invocations
                   - (IF pc = "agent_running" THEN 1 ELSE 0)
            /\ seen.invocations
                   <= config.max_iterations * (config.max_retries + 1))
    /\ []((Done /\ C38_Hypothesis) =>
            /\ C38_Conclusion
            /\ consecutive_failures = seen.invocations
            /\ LastEvent(events) =
                 StoppedEvent(config.max_iterations, MaxIterationsReason))
    \* and the run does end
    /\ []((~Done /\ ~Hung) => ENABLED RunStep)
    /\ [][cancel_flag' = cancel_flag => C26_Progress' > C26_Progress]_vars

C38_Witness ==
    /\ Done
    /\ C38_Hypothesis
    /\ config.max_iterations = MaxIterations
    /\ config.max_retries = MaxRetries
    /\ seen.kinds = {"AgentTimeout", "AgentErrorDetected"}
    /\ consecutive_failures = MaxIterations * (MaxRetries + 1)
    /\ consecutive_failures > MaxThreshold
    /\ outcome = OutcomeStopped(MaxIterations, MaxIterationsReason)


(***************************************************************************)
(* C39.  A checklist that loads with zero stories is complete: when the    *)
(* first check before the agent loads it, the run returns                  *)
(* Completed{0, AllStoriesComplete} and no agent is ever invoked.          *)
(***************************************************************************)
\* A load gave a checklist without stories (PrdUpdated{0, 0}) and no
\* Agent::run call has been made.
C39_EmptyLoadedAtStart ==
    /\ config.prd_path = "Some"
    /\ seen.invocations = 0
    /\ \E i \in 1..Len(events) : events[i] = PrdUpdated(0, 0)

C39_EmptyChecklistCompletes ==
    /\ [](is_complete(<<>>) /\ CompletedCount(<<>>) = 0)
    /\ [](C39_EmptyLoadedAtStart =>
            /\ Done
            /\ iteration = 1
            /\ outcome = OutcomeCompleted(0, AllStoriesComplete)
            /\ Len(events) >= 2
            /\ events[Len(events) - 1] = PrdUpdated(0, 0)
            /\ LastEvent(events) = CompletedEvent(0, AllStoriesComplete)
            /\ calls = <<>>
            /\ child = NoChild
            /\ alive = 0)
    \* the step that loads it is the step that returns
    /\ [][(pc = "prd_before" /\ seen.invocations = 0
             /\ LastEvent(events') # LastEvent(events)
             /\ \E i \in 1..Len(events') : events'[i] = PrdUpdated(0, 0))
            => /\ pc' = "done"
               /\ seen'.prd_complete]_vars
    /\ [][DoneIsFinal]_vars

C39_Witness ==
    /\ C39_EmptyLoadedAtStart
    /\ Done
    /\ outcome = OutcomeCompleted(0, AllStoriesComplete)
    /\ config.max_iterations = MaxIterations
    /\ seen.prd_complete
    /\ ~cancel_flag


(***************************************************************************)
(* C40.  For every checklist Prd::next_story returns an incomplete story   *)
(* each of whose dependency ids is the id of a story that passes, and      *)
(* whose priority number is the least among all such stories; it returns   *)
(* None exactly when there is no such story; the story it returns has the  *)
(* status Pending for the set of the ids of the passing stories.           *)
(***************************************************************************)
C40_Ready(stories, i) ==
    /\ ~stories[i].passes
    /\ \A k \in 1..Len(stories[i].depends_on) :
         \E j \in 1..Len(stories) :
            stories[j].passes /\ stories[j].id = stories[i].depends_on[k]

C40_PassingIds(stories) ==
    {id \in StoryIds :
        \E j \in 1..Len(stories) : stories[j].passes /\ stories[j].id = id}

C40_NextStoryIsBestReady ==
    summary.kind = "progress" =>
        LET stories == prd_loaded.stories
            ready == {i \in 1..Len(stories) : C40_Ready(stories, i)}
            next == summary.next
        IN  /\ next \in {<<>>} \cup {<<i>> : i \in 1..Len(stories)}
            /\ next # <<>> =>
                 /\ next[1] \in ready
                 /\ \A j \in ready :
                      stories[next[1]].priority <= stories[j].priority
                 /\ status(stories[next[1]], C40_PassingIds(stories))
                        = "Pending"
            /\ next = <<>> <=> ready = {}
            /\ is_complete(stories) => next = <<>>

\* A story is returned although a blocked story has a smaller priority
\* number and another story is as ready as the one returned.
C40_Witness ==
    /\ summary.kind = "progress"
    /\ Len(prd_loaded.stories) = MaxStories
    /\ summary.next # <<>>
    /\ \E i, j \in 1..Len(prd_loaded.stories) :
         /\ i # summary.next[1]
         /\ j # summary.next[1]
         /\ status(prd_loaded.stories[i], C40_PassingIds(prd_loaded.stories)) = "Blocked"
         /\ prd_loaded.stories[i].priority
                < prd_loaded.stories[summary.next[1]].priority
         /\ C40_Ready(prd_loaded.stories, j)

====
